---- MODULE Spec2Model ----
(***************************************************************************)
(* Skill-Gobang: the game controller, the board, the history store, the   *)
(* three skills and the win checker, as a state machine.                   *)
(*                                                                         *)
(* A handler that awaits a timer or the network is split at that await:   *)
(* the part before it and the part after it are separate steps, and any   *)
(* other handler may run in between (the browser runs one task at a time, *)
(* and a task ends where the handler suspends).                            *)
(***************************************************************************)
EXTENDS Integers, Sequences, FiniteSets, TLC

VARIABLES
    board,          \* boardManager.board
    history,        \* historyManager.history
    skillsUsed,     \* skillSystem.skillsUsed
    gameStatus, currentPlayer, winner, moveCount, lastMove,   \* GameController
    timers,         \* setTimeout(handleAITurn) callbacks not yet run
    anims,          \* useSkill calls suspended in animateSkillEffect, oldest first
    aiWait,         \* handleAITurn calls suspended in shouldUseSkill / makeMove
    ret,            \* the call that the last step completed, with its result
    useLog,         \* the useSkill calls of this game that went through their
                    \* animation, oldest first: <<player, skill, result>>
    call            \* the advisor call (callQwenAPI) the suspended AI turn waits on

vars == <<board, history, skillsUsed, gameStatus, currentPlayer, winner,
          moveCount, lastMove, timers, anims, aiWait, ret, useLog, call>>

\* GameConfig.PLAYER
EMPTY == 0
HUMAN == 1
AI == 2
Players == {HUMAN, AI}

\* GameConfig.GAME_STATUS
PLAYING == "playing"
ENDED == "ended"

\* GameConfig.SKILLS
Skills == {"flyingSand", "mountainMover", "timeRewind"}
flyingSandTargetCount == 5
mountainMoverTargetCount == 3
rewindStepsConfig == 2

\* GameHistoryManager.maxHistorySize
maxHistorySize == 100

\* The length of a winning run (WinChecker.checkDirection: count >= 5)
WinLength == 5

(***************************************************************************)
(* Bounds of the model.  The real board is 15 x 15.                        *)
(***************************************************************************)
BoardSize == 2        \* side of the board the game is played on
MaxTimers == 2        \* pending setTimeout(handleAITurn) callbacks
MaxAnims == 1         \* useSkill calls suspended in their animation
MaxAI == 1            \* handleAITurn calls in progress
MaxSkillUses == 3     \* useSkill calls of one game that reach their animation
MaxHistory == 5       \* snapshots in the history
MaxMoves == 4         \* the move count
MaxStale == 0         \* callbacks still pending when a new game is started

\* null, where the code has a winner, a last move or a snapshot
NoWinner == 0
DRAW == 3
NoMove == [x |-> -1, y |-> -1, player |-> EMPTY]
NoState == [boardState |-> <<>>, currentPlayer |-> EMPTY,
            skillsUsed |-> <<>>, moveCount |-> -1]
Min(a, b) == IF a < b THEN a ELSE b
Range(s) == {s[i] : i \in 1..Len(s)}

(***************************************************************************)
(* BoardManager.  A board is the 2-dimensional array board[x][y], indexed *)
(* from 0.                                                                 *)
(***************************************************************************)
Size(b) == Cardinality(DOMAIN b)

createEmptyBoard(n) == [x \in 0..(n - 1) |-> [y \in 0..(n - 1) |-> EMPTY]]

isValidCoordinate(x, y, size) == x >= 0 /\ x < size /\ y >= 0 /\ y < size

isValidPosition(b, x, y) == isValidCoordinate(x, y, Size(b))

getPiece(b, x, y) == IF ~isValidPosition(b, x, y) THEN EMPTY ELSE b[x][y]

isEmpty(b, x, y) == getPiece(b, x, y) = EMPTY

SetCell(b, x, y, v) == [b EXCEPT ![x] = [@ EXCEPT ![y] = v]]

\* placePiece without its test of the cell's state
placePieceOver(b, x, y, player) ==
    IF ~isValidPosition(b, x, y)
    THEN [ok |-> FALSE, board |-> b]
    ELSE [ok |-> TRUE, board |-> SetCell(b, x, y, player)]

\* placePiece: <<ok, board after>>
placePiece(b, x, y, player) ==
    IF ~isValidPosition(b, x, y) \/ b[x][y] # EMPTY
    THEN [ok |-> FALSE, board |-> b]
    ELSE [ok |-> TRUE, board |-> SetCell(b, x, y, player)]

\* removePiece: the board after (the removed piece is b[x][y])
removePiece(b, x, y) ==
    IF ~isValidPosition(b, x, y) THEN b ELSE SetCell(b, x, y, EMPTY)

Cells(b) == (DOMAIN b) \X (DOMAIN b)

\* getEmptyPositions / getAllPieces: the elements of the returned array
getEmptyPositions(b) == {c \in Cells(b) : b[c[1]][c[2]] = EMPTY}

getAllPieces(b) == {c \in Cells(b) : b[c[1]][c[2]] # EMPTY}

getPieceCount(b) == Cardinality(getAllPieces(b))

getPlayerPieceCount(b, player) ==
    Cardinality({c \in Cells(b) : b[c[1]][c[2]] = player})

isFull(b) == getPieceCount(b) = Size(b) * Size(b)

(***************************************************************************)
(* WinChecker                                                              *)
(***************************************************************************)
RECURSIVE CountRun(_, _, _, _, _, _)
\* one while loop of checkDirection: the stones of player met from (nx, ny)
\* on, stepping by (dx, dy), before the edge or another cell state
CountRun(b, nx, ny, dx, dy, player) ==
    IF isValidCoordinate(nx, ny, Size(b)) /\ b[nx][ny] = player
    THEN 1 + CountRun(b, nx + dx, ny + dy, dx, dy, player)
    ELSE 0

\* checkDirection without its second while loop
checkDirectionForward(b, x, y, dx, dy, player) ==
    1 + CountRun(b, x + dx, y + dy, dx, dy, player) >= WinLength

checkDirection(b, x, y, dx, dy, player) ==
    1 + CountRun(b, x + dx, y + dy, dx, dy, player)
      + CountRun(b, x - dx, y - dy, 0 - dx, 0 - dy, player) >= WinLength

Directions == {<<0, 1>>, <<1, 0>>, <<1, 1>>, <<1, -1>>}

\* checkWin: the winner, or NoWinner (null)
checkWin(b, lm) ==
    IF lm = NoMove THEN NoWinner
    ELSE IF \E d \in Directions : checkDirection(b, lm.x, lm.y, d[1], d[2], lm.player)
         THEN lm.player
         ELSE NoWinner

isDraw(b) == isFull(b)

(***************************************************************************)
(* Utils.randomSelect(array, count): the array is shuffled by a sort with *)
(* a random comparator and its first min(count, length) elements are      *)
(* returned; every arrangement of that many distinct elements can result. *)
(***************************************************************************)
RECURSIVE Arrangements(_, _)
Arrangements(S, k) ==
    IF k = 0 THEN {<<>>}
    ELSE UNION {{Append(s, e) : e \in S \ Range(s)} : s \in Arrangements(S, k - 1)}

randomSelect(S, count) == Arrangements(S, Min(count, Cardinality(S)))

(***************************************************************************)
(* GameHistoryManager.  A snapshot holds deep clones of the board and of  *)
(* the usage flags; its timestamp is not modelled.                         *)
(***************************************************************************)
\* saveState without the limit on the size of the history
saveStateUnlimited(h, boardState, player, used, count) ==
    Append(h, [boardState |-> boardState, currentPlayer |-> player,
               skillsUsed |-> used, moveCount |-> count])

saveState(h, boardState, player, used, count) ==
    LET state == [boardState |-> boardState, currentPlayer |-> player,
                  skillsUsed |-> used, moveCount |-> count]
        h1 == Append(h, state)
    IN  IF Len(h1) > maxHistorySize THEN Tail(h1) ELSE h1

getCurrentState(h) == IF Len(h) = 0 THEN NoState ELSE h[Len(h)]

\* A single pop, whatever the number of steps
popOnce(h, steps) ==
    IF steps = 0 \/ Len(h) = 0 THEN h ELSE SubSeq(h, 1, Len(h) - 1)

RECURSIVE popTimes(_, _)
\* for (let i = 0; i < steps; i++) this.history.pop()
popTimes(h, steps) ==
    IF steps = 0 \/ Len(h) = 0 THEN h
    ELSE popTimes(SubSeq(h, 1, Len(h) - 1), steps - 1)

\* rewindSteps: the returned state (NoState for null) and the history after
rewindSteps(h, steps) ==
    IF steps <= 0 \/ steps > Len(h)
    THEN [state |-> NoState, history |-> h]
    ELSE [state |-> getCurrentState(popTimes(h, steps)),
          history |-> popTimes(h, steps)]

canRewind(h, steps) == Len(h) >= steps /\ steps > 0

getStateAt(h, index) ==
    IF index < 0 \/ index >= Len(h) THEN NoState ELSE h[index + 1]

(***************************************************************************)
(* The game as one record G, so that the parts of a handler compose.      *)
(***************************************************************************)
Game == [board |-> board, history |-> history, skillsUsed |-> skillsUsed,
         gameStatus |-> gameStatus, currentPlayer |-> currentPlayer,
         winner |-> winner, moveCount |-> moveCount, lastMove |-> lastMove,
         timers |-> timers]

SetGame(G) ==
    /\ board' = G.board
    /\ history' = G.history
    /\ skillsUsed' = G.skillsUsed
    /\ gameStatus' = G.gameStatus
    /\ currentPlayer' = G.currentPlayer
    /\ winner' = G.winner
    /\ moveCount' = G.moveCount
    /\ lastMove' = G.lastMove
    /\ timers' = G.timers

resetSkills == [p \in Players |-> [s \in Skills |-> FALSE]]

saveCurrentState(G) ==
    [G EXCEPT !.history = saveState(G.history, G.board, G.currentPlayer,
                                    G.skillsUsed, G.moveCount)]

switchTurn(G) ==
    [G EXCEPT !.currentPlayer = IF G.currentPlayer = HUMAN THEN AI ELSE HUMAN]

endGame(G, w) == [G EXCEPT !.gameStatus = ENDED, !.winner = w]

\* checkGameEnd: whether the game has ended, and the game after
checkGameEnd(G) ==
    LET w == checkWin(G.board, G.lastMove)
    IN  IF w # NoWinner THEN [ended |-> TRUE, game |-> endGame(G, w)]
        ELSE IF isDraw(G.board) THEN [ended |-> TRUE, game |-> endGame(G, DRAW)]
        ELSE [ended |-> FALSE, game |-> G]

\* BoardManager.fromArray: an array of another size is ignored
fromArray(b, boardArray) == IF Size(boardArray) = Size(b) THEN boardArray ELSE b

\* restoreGameState without the assignment of moveCount
restoreGameStateKeepCount(G, state) ==
    IF state = NoState THEN G
    ELSE LET G1 == [G EXCEPT !.board = fromArray(G.board, state.boardState),
                             !.currentPlayer = state.currentPlayer,
                             !.skillsUsed = state.skillsUsed]
         IN  IF G1.currentPlayer = AI /\ G1.gameStatus = PLAYING
             THEN [G1 EXCEPT !.timers = @ + 1]
             ELSE G1

restoreGameState(G, state) ==
    IF state = NoState THEN G
    ELSE LET G1 == [G EXCEPT !.board = fromArray(G.board, state.boardState),
                             !.currentPlayer = state.currentPlayer,
                             !.skillsUsed = state.skillsUsed,
                             !.moveCount = state.moveCount]
         IN  IF G1.currentPlayer = AI /\ G1.gameStatus = PLAYING
             THEN [G1 EXCEPT !.timers = @ + 1]
             ELSE G1

startNewGameState(G) ==
    saveCurrentState([G EXCEPT !.board = createEmptyBoard(Size(G.board)),
                               !.history = <<>>,
                               !.skillsUsed = resetSkills,
                               !.gameStatus = PLAYING,
                               !.currentPlayer = HUMAN,
                               !.winner = NoWinner,
                               !.moveCount = 0,
                               !.lastMove = NoMove])

(***************************************************************************)
(* SkillSystem                                                             *)
(***************************************************************************)
\* canUseSkill without its test of the usage flag
canUseSkillAnyFlag(G, skillType, player) ==
    /\ skillType \in Skills
    /\ G.gameStatus = PLAYING

canUseSkill(G, skillType, player) ==
    /\ skillType \in Skills
    /\ ~G.skillsUsed[player][skillType]
    /\ G.gameStatus = PLAYING

getAvailableSkills(G, player) == {s \in Skills : ~G.skillsUsed[player][s]}

\* Row-major order of two cells, the order of getAllPieces
Before(c, d) == c[1] < d[1] \/ (c[1] = d[1] /\ c[2] < d[2])

InBoardOrder(s) == \A i, j \in 1..Len(s) : i < j => Before(s[i], s[j])

(***************************************************************************)
(* selectedPieces = Utils.randomSelect(allPieces, targetCount).  The      *)
(* pieces selected are removed one by one and, in flyingSandStorm, paired *)
(* by index with a second, independent randomSelect of the empty cells;   *)
(* the order of the first selection therefore does not change the set of  *)
(* boards that can result, and the selections are taken in board order.   *)
(***************************************************************************)
selectPieces(b, targetCount) ==
    {s \in randomSelect(getAllPieces(b), targetCount) : InBoardOrder(s)}

\* A suspended useSkill call: what it computed before animateSkillEffect
SkillTask(G, skillType, player, selectedPieces, emptyPositions) ==
    [skill |-> skillType, player |-> player, selected |-> selectedPieces,
     empties |-> emptyPositions, boardAtCall |-> G.board]

NoTask == [skill |-> "noSkill", player |-> EMPTY, selected |-> <<>>,
           empties |-> {}, boardAtCall |-> <<>>]

(***************************************************************************)
(* useSkill up to the await of the animation.  Each outcome is either the *)
(* return of false (wait = FALSE) or the suspension of the call (task).   *)
(***************************************************************************)
Refused == [wait |-> FALSE, task |-> NoTask]

Suspended(t) == [wait |-> TRUE, task |-> t]

flyingSandStormBegin(G, player) ==
    IF getAllPieces(G.board) = {} THEN {Refused}
    ELSE LET emptyPositions == getEmptyPositions(G.board)
         IN  {IF Cardinality(emptyPositions) < Len(sel) THEN Refused
              ELSE Suspended(SkillTask(G, "flyingSand", player, sel, emptyPositions))
                : sel \in selectPieces(G.board, flyingSandTargetCount)}

mountainMoverBegin(G, player) ==
    IF getAllPieces(G.board) = {} THEN {Refused}
    ELSE {Suspended(SkillTask(G, "mountainMover", player, sel, {}))
            : sel \in selectPieces(G.board, mountainMoverTargetCount)}

timeRewindBegin(G, player) ==
    IF ~canRewind(G.history, rewindStepsConfig) THEN {Refused}
    ELSE {Suspended(SkillTask(G, "timeRewind", player, <<>>, {}))}

useSkillBegin(G, skillType, player) ==
    IF ~canUseSkill(G, skillType, player) THEN {Refused}
    ELSE CASE skillType = "flyingSand" -> flyingSandStormBegin(G, player)
           [] skillType = "mountainMover" -> mountainMoverBegin(G, player)
           [] skillType = "timeRewind" -> timeRewindBegin(G, player)

(***************************************************************************)
(* useSkill after the animation.                                           *)
(***************************************************************************)
\* Only the first of the selected pieces is removed
removeFirst(b, sel, i) ==
    IF i > Len(sel) THEN b ELSE removePiece(b, sel[i][1], sel[i][2])

RECURSIVE removeAll(_, _, _)
\* selectedPieces.forEach(piece => boardManager.removePiece(piece.x, piece.y))
removeAll(b, sel, i) ==
    IF i > Len(sel) THEN b
    ELSE removeAll(removePiece(b, sel[i][1], sel[i][2]), sel, i + 1)

\* removedPieces: the owner each selected cell held when it was removed
removedPlayers(b, sel) == [i \in 1..Len(sel) |-> getPiece(b, sel[i][1], sel[i][2])]

RECURSIVE placeAllAsFirst(_, _, _, _)
\* Every removed piece is placed as a stone of the owner of the first
placeAllAsFirst(b, players, newPositions, i) ==
    IF i > Len(players) THEN b
    ELSE placeAllAsFirst(placePiece(b, newPositions[i][1], newPositions[i][2], players[1]).board,
                         players, newPositions, i + 1)

RECURSIVE placeAll(_, _, _, _)
\* removedPieces.forEach((piece, index) => placePiece(newPositions[index], piece.player))
placeAll(b, players, newPositions, i) ==
    IF i > Len(players) THEN b
    ELSE placeAll(placePiece(b, newPositions[i][1], newPositions[i][2], players[i]).board,
                  players, newPositions, i + 1)

flyingSandStormEnd(G, t) ==
    LET removed == removedPlayers(G.board, t.selected)
        b1 == removeAll(G.board, t.selected, 1)
    IN  {[ok |-> TRUE, game |-> [G EXCEPT !.board = placeAll(b1, removed, np, 1)]]
           : np \in randomSelect(t.empties, Len(removed))}

mountainMoverEnd(G, t) ==
    {[ok |-> TRUE, game |-> [G EXCEPT !.board = removeAll(G.board, t.selected, 1)]]}

timeRewindEnd(G, t) ==
    LET r == rewindSteps(G.history, rewindStepsConfig)
        G1 == [G EXCEPT !.history = r.history]
    IN  IF r.state # NoState
        THEN {[ok |-> TRUE, game |-> restoreGameState(G1, r.state)]}
        ELSE {[ok |-> FALSE, game |-> G1]}

\* useSkill without the setting of the usage flag
useSkillEndNoFlag(G, t) ==
    CASE t.skill = "flyingSand" -> flyingSandStormEnd(G, t)
      [] t.skill = "mountainMover" -> mountainMoverEnd(G, t)
      [] t.skill = "timeRewind" -> timeRewindEnd(G, t)

\* The outcomes of a resumed useSkill call: its result and the game after
useSkillEnd(G, t) ==
    LET outs == CASE t.skill = "flyingSand" -> flyingSandStormEnd(G, t)
                  [] t.skill = "mountainMover" -> mountainMoverEnd(G, t)
                  [] t.skill = "timeRewind" -> timeRewindEnd(G, t)
    IN  {IF o.ok
         THEN [ok |-> TRUE,
               game |-> [o.game EXCEPT !.skillsUsed[t.player][t.skill] = TRUE]]
         ELSE o : o \in outs}

(***************************************************************************)
(* The steps of the controller.  Every step records in ret the call it    *)
(* completed (or suspended), its arguments and its result.  resumed says  *)
(* that the step is the second part of a useSkill call, after its         *)
(* animation, and alone that the board it resumed on is the board it was  *)
(* called on.                                                              *)
(***************************************************************************)
\* No advisor call in progress; smartAI tells whether window.smartAI is set
NoCall ==
    [kind |-> "none", phase |-> "none", attempt |-> 0, smartAI |-> TRUE,
     seen |-> 0, skills |-> {}, rule |-> "noSkill", boardState |-> <<>>,
     last |-> [kind |-> "none", via |-> "none", skillAnswer |-> "none",
               moveAnswer |-> [parsed |-> FALSE, x |-> -1, y |-> -1]]]

Ret(op, player, skillType, x, y, ok, resumed, alone) ==
    [op |-> op, player |-> player, skill |-> skillType, x |-> x, y |-> y,
     ok |-> ok, resumed |-> resumed, alone |-> alone]

\* The bounds of the model on the game; a step of Next that would leave them
\* is not taken
Bounded ==
    /\ timers <= MaxTimers
    /\ Len(history) <= MaxHistory
    /\ moveCount <= MaxMoves

\* Whether the bounds of the model let one more useSkill call suspend
CanSuspendUpTo(maxAnims) ==
    /\ Len(anims) < maxAnims
    /\ Len(useLog) + Len(anims) < MaxSkillUses

CanSuspend == CanSuspendUpTo(MaxAnims)

AIBusy ==
    aiWait.skill + aiWait.move
      + Cardinality({i \in 1..Len(anims) : anims[i].player = AI})

\* The coordinates of a click or of a move decision: the cells of the board
\* and two positions outside it
Coords == Cells(createEmptyBoard(BoardSize)) \cup {<<-1, 0>>, <<0, BoardSize>>}

\* The game the constructor leaves: its fields, then initializeGame's startNewGame
Constructed(n) ==
    startNewGameState(
        [board |-> createEmptyBoard(n), history |-> <<>>,
         skillsUsed |-> resetSkills, gameStatus |-> PLAYING,
         currentPlayer |-> HUMAN, winner |-> NoWinner, moveCount |-> 0,
         lastMove |-> NoMove, timers |-> 0])

StartWith(G) ==
    /\ board = G.board
    /\ history = G.history
    /\ skillsUsed = G.skillsUsed
    /\ gameStatus = G.gameStatus
    /\ currentPlayer = G.currentPlayer
    /\ winner = G.winner
    /\ moveCount = G.moveCount
    /\ lastMove = G.lastMove
    /\ timers = G.timers

Init ==
    /\ StartWith(Constructed(BoardSize))
    /\ anims = <<>>
    /\ aiWait = [skill |-> 0, move |-> 0]
    /\ ret = Ret("startNewGame", EMPTY, "noSkill", -1, -1, TRUE, FALSE, TRUE)
    /\ useLog = <<>>
    /\ call = NoCall

\* Callbacks that have yet to run: timers, animations, advisor answers
Pending == timers + Len(anims) + aiWait.skill + aiWait.move

startNewGame ==
    /\ Pending <= MaxStale
    /\ SetGame(startNewGameState(Game))
    /\ useLog' = <<>>
    /\ ret' = Ret("startNewGame", EMPTY, "noSkill", -1, -1, TRUE, FALSE, TRUE)
    /\ UNCHANGED <<anims, aiWait>>

\* handlePlayerMove: whether the stone was placed, and the game after
playerMove(G, x, y) ==
    IF G.gameStatus # PLAYING THEN [ok |-> FALSE, game |-> G]
    ELSE IF G.currentPlayer # HUMAN THEN [ok |-> FALSE, game |-> G]
    ELSE IF ~isValidPosition(G.board, x, y) \/ ~isEmpty(G.board, x, y)
         THEN [ok |-> FALSE, game |-> G]
    ELSE LET placed == placePiece(G.board, x, y, HUMAN)
         IN  IF ~placed.ok THEN [ok |-> FALSE, game |-> G]
             ELSE LET G1 == saveCurrentState(
                                [G EXCEPT !.board = placed.board,
                                          !.lastMove = [x |-> x, y |-> y, player |-> HUMAN],
                                          !.moveCount = @ + 1])
                      e == checkGameEnd(G1)
                  IN  IF e.ended THEN [ok |-> TRUE, game |-> e.game]
                      ELSE [ok |-> TRUE,
                            game |-> [switchTurn(G1) EXCEPT !.timers = @ + 1]]

handlePlayerMove(x, y) ==
    LET r == playerMove(Game, x, y)
    IN  /\ SetGame(r.game)
        /\ ret' = Ret("handlePlayerMove", HUMAN, "noSkill", x, y, r.ok, FALSE, TRUE)
        /\ UNCHANGED <<anims, aiWait, useLog>>

\* handleSkillUse up to the await of useSkill
\* maxAnims is the bound of the model on the useSkill calls suspended at once
handleSkillUseUpTo(skillType, maxAnims) ==
    IF \/ gameStatus # PLAYING
       \/ currentPlayer # HUMAN
       \/ ~canUseSkill(Game, skillType, HUMAN)
    THEN /\ ret' = Ret("handleSkillUse", HUMAN, skillType, -1, -1, FALSE, FALSE, TRUE)
         /\ UNCHANGED <<board, history, skillsUsed, gameStatus, currentPlayer,
                        winner, moveCount, lastMove, timers, anims, aiWait, useLog, call>>
    ELSE \E o \in useSkillBegin(Game, skillType, HUMAN) :
           /\ IF o.wait
              THEN /\ CanSuspendUpTo(maxAnims)
                   /\ anims' = Append(anims, o.task)
                   /\ ret' = Ret("useSkillBegin", HUMAN, skillType, -1, -1, TRUE, FALSE, TRUE)
              ELSE /\ anims' = anims
                   /\ ret' = Ret("handleSkillUse", HUMAN, skillType, -1, -1, FALSE, FALSE, TRUE)
           /\ UNCHANGED <<board, history, skillsUsed, gameStatus, currentPlayer,
                          winner, moveCount, lastMove, timers, aiWait, useLog>>

handleSkillUse(skillType) == handleSkillUseUpTo(skillType, MaxAnims)

\* What handleSkillUse / handleAITurn do once useSkill has returned true
afterSkill(G) == checkGameEnd(saveCurrentState(G)).game

\* The animation of the oldest suspended useSkill call ends (Utils.delay):
\* the effect is applied and the caller, handleSkillUse or handleAITurn, goes on
animationDone ==
    /\ anims # <<>>
    /\ LET t == Head(anims)
       IN  \E o \in useSkillEnd(Game, t) :
             /\ anims' = Tail(anims)
             /\ useLog' = Append(useLog, <<t.player, t.skill, o.ok>>)
             /\ SetGame(IF o.ok THEN afterSkill(o.game) ELSE o.game)
             /\ IF t.player = HUMAN
                THEN /\ ret' = Ret("handleSkillUse", HUMAN, t.skill, -1, -1, o.ok, TRUE, t.boardAtCall = board)
                     /\ aiWait' = aiWait
                ELSE /\ ret' = Ret("aiUseSkill", AI, t.skill, -1, -1, o.ok, TRUE, t.boardAtCall = board)
                     /\ aiWait' =
                          IF o.ok /\ (afterSkill(o.game).gameStatus = ENDED
                                        \/ t.skill = "timeRewind")
                          THEN aiWait
                          ELSE [aiWait EXCEPT !.move = @ + 1]

\* A setTimeout callback runs handleAITurn, up to its first await; maxAI is the
\* bound of the model on the handleAITurn calls in progress
handleAITurnUpTo(maxAI) ==
    /\ timers > 0
    /\ timers' = timers - 1
    /\ UNCHANGED <<board, history, skillsUsed, gameStatus, currentPlayer,
                   winner, moveCount, lastMove, anims, useLog>>
    /\ IF gameStatus # PLAYING \/ currentPlayer # AI
       THEN /\ aiWait' = aiWait
            /\ ret' = Ret("handleAITurn", AI, "noSkill", -1, -1, FALSE, FALSE, TRUE)
       ELSE /\ AIBusy < maxAI
            /\ aiWait' = IF getAvailableSkills(Game, AI) # {}
                         THEN [aiWait EXCEPT !.skill = @ + 1]
                         ELSE [aiWait EXCEPT !.move = @ + 1]
            /\ ret' = Ret("handleAITurn", AI, "noSkill", -1, -1, TRUE, FALSE, TRUE)

handleAITurn == handleAITurnUpTo(MaxAI)

\* shouldUseSkill resolves with the decision d; handleAITurn goes on to useSkill
\* (up to its animation) or to makeMove
aiSkillDecision(d) ==
    /\ aiWait.skill > 0
    /\ UNCHANGED <<board, history, skillsUsed, gameStatus, currentPlayer,
                   winner, moveCount, lastMove, timers, useLog>>
    /\ IF d = "noSkill"
       THEN /\ aiWait' = [skill |-> aiWait.skill - 1, move |-> aiWait.move + 1]
            /\ anims' = anims
            /\ ret' = Ret("aiNoSkill", AI, d, -1, -1, FALSE, FALSE, TRUE)
       ELSE \E o \in useSkillBegin(Game, d, AI) :
              IF o.wait
              THEN /\ CanSuspend
                   /\ anims' = Append(anims, o.task)
                   /\ aiWait' = [aiWait EXCEPT !.skill = @ - 1]
                   /\ ret' = Ret("useSkillBegin", AI, d, -1, -1, TRUE, FALSE, TRUE)
              ELSE /\ anims' = anims
                   /\ aiWait' = [skill |-> aiWait.skill - 1, move |-> aiWait.move + 1]
                   /\ ret' = Ret("aiUseSkill", AI, d, -1, -1, FALSE, FALSE, TRUE)

\* The stone of the AI at (x, y): placePiece, lastMove, moveCount, the snapshot,
\* checkGameEnd and, unless the game ended, switchTurn
aiPlace(G, x, y) ==
    LET G1 == saveCurrentState(
                  [G EXCEPT !.board = placePiece(G.board, x, y, AI).board,
                            !.lastMove = [x |-> x, y |-> y, player |-> AI],
                            !.moveCount = @ + 1])
        e == checkGameEnd(G1)
    IN  IF e.ended THEN e.game ELSE switchTurn(G1)

\* handleAIFallback: the games that can result
handleAIFallback(G) ==
    IF getEmptyPositions(G.board) = {} THEN {G}
    ELSE {aiPlace(G, pos[1], pos[2]) : pos \in getEmptyPositions(G.board)}

\* makeMove resolves with the decision (x, y); handleAITurn validates it against
\* the board as it is now, places the stone or falls back
aiMoveDecision(x, y) ==
    /\ aiWait.move > 0
    /\ aiWait' = [aiWait EXCEPT !.move = @ - 1]
    /\ \E G \in (IF isValidPosition(board, x, y) /\ isEmpty(board, x, y)
                 THEN {aiPlace(Game, x, y)}
                 ELSE handleAIFallback(Game)) :
         /\ SetGame(G)
         /\ ret' = Ret("aiMove", AI, "noSkill", x, y, G.board # board, FALSE, TRUE)
    /\ UNCHANGED <<anims, useLog>>

Next ==
    \/ startNewGame /\ Bounded' /\ UNCHANGED call
    \/ \E c \in Coords : handlePlayerMove(c[1], c[2]) /\ Bounded' /\ UNCHANGED call
    \/ \E s \in Skills : handleSkillUse(s) /\ Bounded' /\ UNCHANGED call
    \/ animationDone /\ Bounded' /\ UNCHANGED call
    \/ handleAITurn /\ Bounded' /\ UNCHANGED call
    \/ \E d \in Skills \cup {"noSkill"} : aiSkillDecision(d) /\ Bounded' /\ UNCHANGED call
    \/ \E c \in Coords : aiMoveDecision(c[1], c[2]) /\ Bounded' /\ UNCHANGED call

Spec == Init /\ [][Next]_vars

(***************************************************************************)
(* Properties of the game (specification Spec)                             *)
(***************************************************************************)
\* The last step was a useSkill call returning to handleSkillUse or handleAITurn
UseSkillReturned == ret.op \in {"handleSkillUse", "aiUseSkill"}

RewindSucceeded == UseSkillReturned /\ ret.skill = "timeRewind" /\ ret.ok

\* C1: in one game no player has two successful uses of the same skill
C1_EachSkillAtMostOnce ==
    \A i, j \in 1..Len(useLog) :
        (i < j /\ useLog[i][3] /\ useLog[j][3])
            => <<useLog[i][1], useLog[i][2]>> # <<useLog[j][1], useLog[j][2]>>

\* C2: a rewind attempted on a history of fewer than rewindSteps + 1 snapshots
\* fails and leaves the board, the usage flags and the history as they were
C2_ShortRewindChangesNothing ==
    [][(UseSkillReturned' /\ ret'.skill = "timeRewind"
          /\ Len(history) < rewindStepsConfig + 1)
       => (~ret'.ok /\ board' = board /\ skillsUsed' = skillsUsed
             /\ history' = history)]_vars

\* C3: once a successful rewind has been processed, the history is shorter by
\* rewindSteps and ends with the snapshot that was restored
C3_RewindAppendsNoSnapshot ==
    [][RewindSucceeded'
       => (/\ Len(history') = Len(history) - rewindStepsConfig
           /\ history'[Len(history')] = history[Len(history) - rewindStepsConfig])]_vars

\* C5: a successful rewind leaves the live board, current player and move count
\* equal to those of the snapshot it landed on (the tail once rewindSteps
\* snapshots are dropped), and the usage flags equal to that snapshot's except
\* that the timeRewind flag of the player who rewound is true
C5_RewindRestoresTail ==
    [][RewindSucceeded'
       => LET st == history[Len(history) - rewindStepsConfig]
          IN  /\ board' = st.boardState
              /\ currentPlayer' = st.currentPlayer
              /\ moveCount' = st.moveCount
              /\ skillsUsed' = [st.skillsUsed EXCEPT ![ret'.player]["timeRewind"] = TRUE]]_vars

\* A rewind has just succeeded and restored a position with one stone
C5_Witness ==
    /\ RewindSucceeded
    /\ moveCount = 1
    /\ getPieceCount(board) = 1
    /\ skillsUsed[ret.player]["timeRewind"]

\* placePiece on a position outside the board or on an occupied cell
PlacePieceRejectsInvalid ==
    \A c \in Coords, p \in Players :
        (~isValidPosition(board, c[1], c[2]) \/ ~isEmpty(board, c[1], c[2]))
            => placePiece(board, c[1], c[2], p) = [ok |-> FALSE, board |-> board]

\* The click handled by the last step asked for a placement that is invalid in
\* the state it was handled in
InvalidPlacement(x, y) ==
    \/ gameStatus # PLAYING
    \/ currentPlayer # HUMAN
    \/ ~isValidPosition(board, x, y)
    \/ ~isEmpty(board, x, y)

\* C9: placePiece refuses a position outside the board and an occupied cell and
\* leaves the board as it is; handlePlayerMove refuses such a cell, a click when
\* it is not the human's turn and a click when the game is not being played,
\* and leaves the board, the move count, the current player and the history
C9_InvalidPlacementRejected ==
    /\ []PlacePieceRejectsInvalid
    /\ [][(ret'.op = "handlePlayerMove" /\ InvalidPlacement(ret'.x, ret'.y))
          => (/\ ~ret'.ok
              /\ UNCHANGED <<board, moveCount, currentPlayer, history>>)]_vars

\* A click on an occupied cell, on the human's turn of a game being played,
\* has just been refused
C9_Witness ==
    /\ ret.op = "handlePlayerMove"
    /\ ~ret.ok
    /\ gameStatus = PLAYING
    /\ currentPlayer = HUMAN
    /\ isValidPosition(board, ret.x, ret.y)
    /\ ~isEmpty(board, ret.x, ret.y)

\* The last step was a call of useSkill (or of handleSkillUse, which checks
\* canUseSkill before it calls useSkill) taken up to its return or suspension
UseSkillCalled ==
    ret.op \in {"handleSkillUse", "aiUseSkill", "useSkillBegin"} /\ ~ret.resumed

\* C10: a useSkill call for a skill whose flag is already true for that player
\* returns false without suspending and leaves the board, the history, the
\* current player and every usage flag as they were
C10_UsedSkillRefused ==
    [][(UseSkillCalled' /\ skillsUsed[ret'.player][ret'.skill])
       => (/\ ret'.op # "useSkillBegin"
           /\ ~ret'.ok
           /\ UNCHANGED <<board, history, currentPlayer, skillsUsed, anims>>)]_vars

\* The AI has just called useSkill for a skill it had already used, in a game
\* being played with stones on the board
C10_Witness ==
    /\ ret.op = "aiUseSkill"
    /\ ~ret.resumed
    /\ ~ret.ok
    /\ skillsUsed[AI][ret.skill]
    /\ gameStatus = PLAYING
    /\ getPieceCount(board) > 0

(***************************************************************************)
(* The history manager on its own (specification SpecHist): snapshots are *)
(* saved and rewindSteps is called with any number of steps.               *)
(***************************************************************************)
HistMaxLen == 4       \* snapshots saved before a rewind
HistMaxSteps == 6     \* the argument of rewindSteps
HistMaxCount == 1     \* the move count stored in a snapshot

HistRet(op, steps, state) == [op |-> op, steps |-> steps, state |-> state]

InitHist ==
    /\ StartWith([Constructed(BoardSize) EXCEPT !.history = <<>>])
    /\ anims = <<>>
    /\ aiWait = [skill |-> 0, move |-> 0]
    /\ ret = HistRet("constructor", 0, NoState)
    /\ useLog = <<>>
    /\ call = NoCall

histSaveState(player, count) ==
    /\ Len(history) < HistMaxLen
    /\ history' = saveState(history, board, player, skillsUsed, count)
    /\ ret' = HistRet("saveState", 0, NoState)
    /\ UNCHANGED <<board, skillsUsed, gameStatus, currentPlayer, winner,
                   moveCount, lastMove, timers, anims, aiWait, useLog, call>>

histRewindSteps(steps) ==
    /\ history' = rewindSteps(history, steps).history
    /\ ret' = HistRet("rewindSteps", steps, rewindSteps(history, steps).state)
    /\ UNCHANGED <<board, skillsUsed, gameStatus, currentPlayer, winner,
                   moveCount, lastMove, timers, anims, aiWait, useLog, call>>

NextHist ==
    \/ \E p \in Players, c \in 0..HistMaxCount : histSaveState(p, c)
    \/ \E n \in 0..HistMaxSteps : histRewindSteps(n)

SpecHist == InitHist /\ [][NextHist]_vars

\* C4: on a history of L snapshots, rewindSteps(n) with 0 < n < L returns the
\* snapshot that was at index L-1-n and leaves the first L-n snapshots in their
\* order; with n > L it returns null (and leaves the history as it was)
C4_RewindStepsReturnsTail ==
    [][ret'.op = "rewindSteps"
       => LET L == Len(history)
              n == ret'.steps
          IN  /\ (0 < n /\ n < L)
                    => (/\ ret'.state = getStateAt(history, L - 1 - n)
                        /\ ret'.state # NoState
                        /\ history' = SubSeq(history, 1, L - n))
              /\ n > L => (ret'.state = NoState /\ history' = history)]_vars

\* rewindSteps(2) on three snapshots has just returned the one that was first
C4_Witness ==
    /\ ret.op = "rewindSteps"
    /\ ret.steps = 2
    /\ Len(history) = 1
    /\ ret.state = history[1]
    /\ ret.state.moveCount = 0
    /\ ret.state.currentPlayer = HUMAN

(***************************************************************************)
(* The win checker on its own (specification SpecWin): checkWin is called *)
(* on a board and a last move whose cell holds the mover's stone.  The    *)
(* boards are those whose stones all lie on one line of the board, in any *)
(* pattern of the three cell states, and those whose stones are the last  *)
(* move and arms of the mover's stones leaving it in the eight senses.    *)
(***************************************************************************)
WinBoardSize == 6     \* side of the board checkWin is called on
MaxArm == 2           \* stones of one arm

WinCells == Cells(createEmptyBoard(WinBoardSize))

\* The board holding stones[c] at every cell c of the domain of stones
BoardOf(stones) ==
    [x \in 0..(WinBoardSize - 1) |->
        [y \in 0..(WinBoardSize - 1) |->
            IF <<x, y>> \in DOMAIN stones THEN stones[<<x, y>>] ELSE EMPTY]]

\* The cells of the line that starts at c and runs in direction d
LineFrom(c, d) ==
    {<<c[1] + k * d[1], c[2] + k * d[2]>> : k \in 0..(WinBoardSize - 1)} \cap WinCells

Lines ==
    {LineFrom(cd[1], cd[2]) :
        cd \in {ed \in WinCells \X Directions :
                   <<ed[1][1] - ed[2][1], ed[1][2] - ed[2][2]>> \notin WinCells}}

\* The senses in which an arm leaves the last move
Senses == Directions \cup {<<0 - d[1], 0 - d[2]>> : d \in Directions}

\* The last move of player at c and, in each sense s, arm[s] more of its stones
ArmBoard(c, player, arm) ==
    [x \in 0..(WinBoardSize - 1) |->
        [y \in 0..(WinBoardSize - 1) |->
            IF \E s \in Senses, k \in 0..MaxArm :
                   k <= arm[s] /\ x = c[1] + k * s[1] /\ y = c[2] + k * s[2]
            THEN player ELSE EMPTY]]

ArmCentre == <<MaxArm, MaxArm>>

WinRet(op, result) == [op |-> op, result |-> result]

\* checkWin is about to be called on board b and the last move at c
WinStart(b, c) ==
    StartWith([Constructed(WinBoardSize)
                  EXCEPT !.board = b,
                         !.lastMove = [x |-> c[1], y |-> c[2], player |-> b[c[1]][c[2]]]])

InitWin ==
    /\ \/ \E line \in Lines : \E stones \in [line -> {EMPTY, HUMAN, AI}] :
            \E c \in line : stones[c] # EMPTY /\ WinStart(BoardOf(stones), c)
       \/ \E p \in Players, arm \in [Senses -> 0..MaxArm] :
            WinStart(ArmBoard(ArmCentre, p, arm), ArmCentre)
    /\ anims = <<>>
    /\ aiWait = [skill |-> 0, move |-> 0]
    /\ ret = WinRet("position", NoWinner)
    /\ useLog = <<>>
    /\ call = NoCall

callCheckWin ==
    /\ ret.op = "position"
    /\ ret' = WinRet("checkWin", checkWin(board, lastMove))
    /\ UNCHANGED <<board, history, skillsUsed, gameStatus, currentPlayer, winner,
                   moveCount, lastMove, timers, anims, aiWait, useLog, call>>

NextWin == callCheckWin

SpecWin == InitWin /\ [][NextWin]_vars

\* Five cells in a row, in direction d, that include (x, y) and all hold player
HasFive(b, x, y, player) ==
    \E d \in Directions, k \in 0..(WinLength - 1) :
        \A i \in 0..(WinLength - 1) :
            /\ isValidPosition(b, x + (i - k) * d[1], y + (i - k) * d[2])
            /\ b[x + (i - k) * d[1]][y + (i - k) * d[2]] = player

\* C8: on a last move whose cell holds the mover's stone, checkWin returns the
\* mover if the stones of the mover form a contiguous run of five or more
\* through that cell in one of the four directions, and null if they do not
C8_CheckWinIffFive ==
    (ret.op = "checkWin" /\ getPiece(board, lastMove.x, lastMove.y) = lastMove.player)
        => /\ HasFive(board, lastMove.x, lastMove.y, lastMove.player)
                => ret.result = lastMove.player
           /\ ~HasFive(board, lastMove.x, lastMove.y, lastMove.player)
                => ret.result = NoWinner

\* checkWin has just returned the mover for a last move at the end of a row of
\* exactly five of the mover's stones, (x, 0) to (x, 4)
C8_Witness ==
    /\ ret.op = "checkWin"
    /\ ret.result = lastMove.player
    /\ lastMove.y = WinLength - 1
    /\ \A y \in 0..(WinLength - 1) : board[lastMove.x][y] = lastMove.player
    /\ board[lastMove.x][WinLength] # lastMove.player

(***************************************************************************)
(* The first skill of a game (specification SpecSkill), on a board large  *)
(* enough for a skill to select fewer pieces than there are: the game has *)
(* reached a position of up to MaxInitStones stones by alternate moves,   *)
(* and the player to move uses flyingSand or mountainMover.                *)
(***************************************************************************)
SkillBoardSize == 4   \* side of the board
MaxInitStones == 6    \* stones placed before the skill is used

RECURSIVE PlayedOut(_)
\* The game after n moves: the human, then the AI, and so on, each taking the
\* first empty cell in the order x * size + y
PlayedOut(n) ==
    IF n = 0 THEN Constructed(SkillBoardSize)
    ELSE LET G == PlayedOut(n - 1)
             x == (n - 1) \div SkillBoardSize
             y == (n - 1) % SkillBoardSize
         IN  IF G.currentPlayer = HUMAN
             THEN playerMove(G, x, y).game
             ELSE aiPlace([G EXCEPT !.timers = @ - 1], x, y)

InitSkill ==
    /\ \E n \in 0..MaxInitStones : StartWith(PlayedOut(n))
    /\ anims = <<>>
    /\ aiWait = [skill |-> 0, move |-> 0]
    /\ ret = Ret("position", EMPTY, "noSkill", -1, -1, TRUE, FALSE, TRUE)
    /\ useLog = <<>>
    /\ call = NoCall

BoardSkills == {"flyingSand", "mountainMover"}

NextSkill ==
    \/ \E s \in BoardSkills : useLog = <<>> /\ handleSkillUse(s) /\ UNCHANGED call
    \/ useLog = <<>> /\ handleAITurn /\ UNCHANGED call
    \/ \E d \in BoardSkills : useLog = <<>> /\ aiSkillDecision(d) /\ UNCHANGED call
    \/ animationDone /\ UNCHANGED call

SpecSkill == InitSkill /\ [][NextSkill]_vars

\* The cells of the board that hold no stone before the step and one after it,
\* and those that hold a stone before it and none after it
Filled == {c \in Cells(board) : isEmpty(board, c[1], c[2]) /\ ~isEmpty(board', c[1], c[2])}

Vacated == {c \in Cells(board) : ~isEmpty(board, c[1], c[2]) /\ isEmpty(board', c[1], c[2])}

\* C6: a successful flyingSand that resumes on the board it was called on
\* leaves the number of stones and the number of stones of each player as they
\* were; min(5, stones) cells are vacated, as many are filled, and no other
\* cell changes
C6_ScatterKeepsCounts ==
    [][(UseSkillReturned' /\ ret'.skill = "flyingSand" /\ ret'.ok /\ ret'.alone)
       => (/\ getPieceCount(board') = getPieceCount(board)
           /\ \A p \in Players :
                getPlayerPieceCount(board', p) = getPlayerPieceCount(board, p)
           /\ Cardinality(Vacated) = Min(flyingSandTargetCount, getPieceCount(board))
           /\ Cardinality(Filled) = Cardinality(Vacated)
           /\ \A c \in Cells(board) \ (Vacated \cup Filled) :
                board'[c[1]][c[2]] = board[c[1]][c[2]])]_vars

\* flyingSand has just succeeded on a board of more than five stones
C6_Witness ==
    /\ UseSkillReturned
    /\ ret.skill = "flyingSand"
    /\ ret.ok
    /\ ret.alone
    /\ getPieceCount(board) > flyingSandTargetCount
    /\ getPlayerPieceCount(board, HUMAN) = getPlayerPieceCount(board, AI)

\* C7: mountainMover called on a board without stones returns false and leaves
\* the board, the history and the flags; called on a board with stones by a
\* player who can use it, it goes on to its animation, and resuming on the
\* board it was called on it succeeds, removes min(3, stones) stones, leaves
\* every empty cell empty and changes no cell it did not select
C7_RemoveTakesMinThree ==
    [][(ret'.skill = "mountainMover"
          /\ ret'.op \in {"handleSkillUse", "aiUseSkill", "useSkillBegin"})
       => IF ~ret'.resumed
          THEN /\ getPieceCount(board) = 0
                    => (/\ ret'.op # "useSkillBegin"
                        /\ ~ret'.ok
                        /\ UNCHANGED <<board, history, skillsUsed>>)
               /\ (/\ getPieceCount(board) > 0
                   /\ canUseSkill(Game, "mountainMover", ret'.player)
                   /\ currentPlayer = ret'.player)
                    => ret'.op = "useSkillBegin"
          ELSE ret'.alone
                    => (/\ ret'.ok
                        /\ getPieceCount(board') = getPieceCount(board)
                             - Min(mountainMoverTargetCount, getPieceCount(board))
                        /\ Filled = {}
                        /\ \A c \in Cells(board) \ Range(Head(anims).selected) :
                             board'[c[1]][c[2]] = board[c[1]][c[2]])]_vars

\* mountainMover has just removed three stones of a board that held more
C7_Witness ==
    /\ UseSkillReturned
    /\ ret.skill = "mountainMover"
    /\ ret.ok
    /\ ret.alone
    /\ getPieceCount(board) > 0
    /\ getPieceCount(history[Len(history) - 1].boardState)
         = getPieceCount(board) + mountainMoverTargetCount

(***************************************************************************)
(* Further properties of the game (specification Spec)                     *)
(***************************************************************************)
\* C11: within one game a usage flag that is true stays true: only the step
\* that starts a new game may take a flag from true to false
C11_FlagsMonotonic ==
    [][ret'.op # "startNewGame"
       => \A p \in Players, s \in Skills :
            skillsUsed[p][s] => skillsUsed'[p][s]]_vars

(***************************************************************************)
(* The game with a new game started at any moment (specification          *)
(* SpecReset): startNewGame cancels neither the timers nor the AI turn in  *)
(* progress, so their callbacks run in the new game.  The human places    *)
(* stones and starts new games; the AI takes its turns.                    *)
(***************************************************************************)
\* resetGame / the new-game button: startNewGame with callbacks still pending
resetGame ==
    /\ SetGame(startNewGameState(Game))
    /\ useLog' = <<>>
    /\ ret' = Ret("startNewGame", EMPTY, "noSkill", -1, -1, TRUE, FALSE, TRUE)
    /\ UNCHANGED <<anims, aiWait>>

NextReset ==
    \/ resetGame /\ Bounded' /\ UNCHANGED call
    \/ \E c \in Coords : handlePlayerMove(c[1], c[2]) /\ Bounded' /\ UNCHANGED call
    \/ animationDone /\ Bounded' /\ UNCHANGED call
    \/ handleAITurn /\ Bounded' /\ UNCHANGED call
    \/ \E d \in Skills \cup {"noSkill"} : aiSkillDecision(d) /\ Bounded' /\ UNCHANGED call
    \/ \E c \in Coords : aiMoveDecision(c[1], c[2]) /\ Bounded' /\ UNCHANGED call

SpecReset == Init /\ [][NextReset]_vars

\* An AI turn is suspended in shouldUseSkill or in makeMove
AISuspended == aiWait.skill + aiWait.move > 0

\* The step is the arrival of the decision an AI turn was waiting for
AIDecisionArrives ==
    /\ AISuspended
    /\ ret'.op \in {"aiMove", "aiNoSkill", "aiUseSkill", "useSkillBegin"}
    /\ ret'.player = AI

\* C12: when a new game has just been started under a suspended AI turn, the
\* decision that arrives next places no stone, starts no skill and leaves the
\* current player, the flags and the history of the new game
C12_StaleDecisionDiscarded ==
    [][(ret.op = "startNewGame" /\ AIDecisionArrives)
       => (/\ board' = board
           /\ currentPlayer' = currentPlayer
           /\ skillsUsed' = skillsUsed
           /\ history' = history
           /\ anims' = anims)]_vars

(***************************************************************************)
(* SmartAI, the local move evaluator, under the profile its constructor   *)
(* sets ('normal').  evaluatePosition places a stone at (x, y), scores    *)
(* the four lines through it and takes the stone back; the lines are read *)
(* from the neighbours of (x, y) only, so nothing is placed here.          *)
(***************************************************************************)
WIN == 100000
FOUR == 10000
THREE == 1000
TWO == 100
ONE == 10
CENTER == 5
boardCenter == 7
openingEmptyCells == 220
mistakeChoices == 5

Abs(n) == IF n < 0 THEN 0 - n ELSE n

RECURSIVE lineArm(_, _, _, _, _, _, _)
\* One of the two loops of analyzeLine, from step i on: the stones of player
\* that follow (x, y) in the sense (dx, dy) and whether the arm ends blocked
lineArm(b, x, y, dx, dy, player, i) ==
    LET nx == x + dx * i
        ny == y + dy * i
    IN  IF i >= WinLength THEN [count |-> 0, blocked |-> 0]
        ELSE IF ~isValidPosition(b, nx, ny) THEN [count |-> 0, blocked |-> 1]
        ELSE IF b[nx][ny] = player
             THEN [lineArm(b, x, y, dx, dy, player, i + 1) EXCEPT !.count = @ + 1]
        ELSE IF b[nx][ny] = EMPTY THEN [count |-> 0, blocked |-> 0]
        ELSE [count |-> 0, blocked |-> 1]

analyzeLine(b, x, y, dx, dy, player) ==
    LET pos == lineArm(b, x, y, dx, dy, player, 1)
        neg == lineArm(b, x, y, 0 - dx, 0 - dy, player, 1)
    IN  [count |-> 1 + pos.count + neg.count, blocked |-> pos.blocked + neg.blocked]

getLineScore(lineInfo) ==
    IF lineInfo.count >= WinLength THEN WIN
    ELSE IF lineInfo.count = 4 /\ lineInfo.blocked = 0 THEN FOUR
    ELSE IF lineInfo.count = 4 /\ lineInfo.blocked = 1 THEN FOUR \div 2
    ELSE IF lineInfo.count = 3 /\ lineInfo.blocked = 0 THEN THREE
    ELSE IF lineInfo.count = 3 /\ lineInfo.blocked = 1 THEN THREE \div 2
    ELSE IF lineInfo.count = 2 /\ lineInfo.blocked = 0 THEN TWO
    ELSE IF lineInfo.count = 2 /\ lineInfo.blocked = 1 THEN TWO \div 2
    ELSE IF lineInfo.count = 1 THEN ONE
    ELSE 0

RECURSIVE SumOver(_, _)
SumOver(S, f) ==
    IF S = {} THEN 0
    ELSE LET e == CHOOSE e \in S : TRUE IN f[e] + SumOver(S \ {e}, f)

getAttackScore(b, x, y, player) ==
    SumOver(Directions,
            [d \in Directions |-> getLineScore(analyzeLine(b, x, y, d[1], d[2], player))])

getCenterBonus(x, y) ==
    LET distance == Abs(x - boardCenter) + Abs(y - boardCenter)
    IN  IF 8 - distance > 0 THEN CENTER * (8 - distance) ELSE 0

\* Ten times the score of evaluatePosition, which weighs the defence by 0.9
evaluatePosition(b, x, y) ==
    10 * getAttackScore(b, x, y, AI) + 9 * getAttackScore(b, x, y, HUMAN)
      + 10 * getCenterBonus(x, y)

\* SmartAI.checkWin with the stone of player at (x, y)
smartCheckWin(b, x, y, player) ==
    \E d \in Directions :
        1 + lineArm(b, x, y, d[1], d[2], player, 1).count
          + lineArm(b, x, y, 0 - d[1], 0 - d[2], player, 1).count >= WinLength

\* The first cell of S in the order of SmartAI.getEmptyPositions
FirstCell(S) == CHOOSE c \in S : \A d \in S \ {c} : Before(c, d)

\* The cells where the AI wins instead of the cells where the opponent wins
findOwnThreats(b, player) ==
    {c \in getEmptyPositions(b) : smartCheckWin(b, c[1], c[2], AI)}

\* findUrgentThreats: the empty cells where a stone of player wins
findUrgentThreats(b, player) ==
    {c \in getEmptyPositions(b) : smartCheckWin(b, c[1], c[2], player)}

\* The place of the empty cell c in the moves sorted by score (a stable sort)
Rank(b, c) ==
    Cardinality({d \in getEmptyPositions(b) :
                   \/ evaluatePosition(b, d[1], d[2]) > evaluatePosition(b, c[1], c[2])
                   \/ /\ evaluatePosition(b, d[1], d[2]) = evaluatePosition(b, c[1], c[2])
                      /\ Before(d, c)})

\* getOpeningMove: the first free cell of the nine around the centre, else
\* any empty cell
getOpeningMove(b) ==
    LET near == {c \in getEmptyPositions(b) :
                   Abs(c[1] - boardCenter) <= 1 /\ Abs(c[2] - boardCenter) <= 1}
    IN  IF isEmpty(b, boardCenter, boardCenter) THEN {<<boardCenter, boardCenter>>}
        ELSE IF near # {} THEN near
        ELSE getEmptyPositions(b)

\* getBestMove: the cells it can return; {} stands for null.  With the chance
\* mistakeChance it returns any of the first five moves, else the first
getBestMove(b) ==
    IF getEmptyPositions(b) = {} THEN {}
    ELSE IF Cardinality(getEmptyPositions(b)) >= openingEmptyCells THEN getOpeningMove(b)
    ELSE {c \in getEmptyPositions(b) : Rank(b, c) < mistakeChoices}

\* The best-scoring candidates of the evaluator
bestCandidates(b) ==
    {c \in getEmptyPositions(b) :
       \A d \in getEmptyPositions(b) :
          evaluatePosition(b, d[1], d[2]) <= evaluatePosition(b, c[1], c[2])}

\* AIService.getSmartAIMove: the first urgent threat, else getBestMove
getSmartAIMove(b) ==
    IF findUrgentThreats(b, HUMAN) # {}
    THEN {FirstCell(findUrgentThreats(b, HUMAN))}
    ELSE getBestMove(b)

\* AIService.getFallbackMove(boardState): the evaluator if it is there, else
\* the first empty cell, else a random cell
getFallbackMove(b, smartAI) ==
    IF smartAI /\ getBestMove(b) # {} THEN getBestMove(b)
    ELSE IF getEmptyPositions(b) # {} THEN {FirstCell(getEmptyPositions(b))}
    ELSE Cells(b)

\* AIService.getFallbackMove(): a random cell
getRandomMove(b) == Cells(b)

(***************************************************************************)
(* AIService: the skill decision and the move decision of one AI turn,    *)
(* with the advisor call (callQwenAPI) split at its awaits: fetch, the    *)
(* read of the response body, and the delay before the next attempt.      *)
(***************************************************************************)
MAX_RETRIES == 3
earlyGameMoves == 16
forceSkillMoves == 30
recentStatesCount == 6

Max(a, b) == IF a > b THEN a ELSE b

getRecentStates(h, count) == SubSeq(h, Max(1, Len(h) - count + 1), Len(h))

\* The cells that differ between two boards and are not empty in the second
changedCells(prevBoard, currBoard) ==
    {c \in Cells(currBoard) :
       prevBoard[c[1]][c[2]] # currBoard[c[1]][c[2]] /\ currBoard[c[1]][c[2]] # EMPTY}

RECURSIVE countRecentMoves(_, _)
countRecentMoves(recentStates, i) ==
    IF i > Len(recentStates) THEN 0
    ELSE Cardinality(changedCells(recentStates[i - 1].boardState,
                                  recentStates[i].boardState))
           + countRecentMoves(recentStates, i + 1)

\* The length of getRecentMoves(count), the move count the skill decision sees
getRecentMoves(h, count) == countRecentMoves(getRecentStates(h, count), 2)

\* getRuleBasedSkillDecision: the decisions it can return.  Below the early
\* game threshold it returns "no skill"; its threat analysis past the
\* threshold is not modelled and may return any decision
getRuleBasedSkillDecision(b, availableSkills, seen) ==
    IF seen < earlyGameMoves THEN {"noSkill"}
    ELSE availableSkills \cup {"noSkill"}

\* The force rule without its move threshold
shouldForceAlways(b, availableSkills, seen) == {TRUE, FALSE}

\* shouldForceSkillUse: the values it can return.  Past 30 moves it draws a
\* random number or returns false, depending on the value of the skills
shouldForceSkillUse(b, availableSkills, seen) ==
    IF seen > forceSkillMoves THEN {TRUE, FALSE} ELSE {FALSE}

\* getForceSkillDecision: a random available skill
getForceSkillDecision(availableSkills) == availableSkills

\* What the advisor can answer to the skill prompt: text without JSON, a
\* useSkill that is no boolean, useSkill false, useSkill true with a skill
\* type that GameConfig.SKILLS does not have, or with one of the three skills
SkillAnswers == {"unparseable", "notBoolean", "decline", "unknownSkill"} \cup Skills

validateSkillResponse(answer) ==
    IF answer \in Skills THEN answer ELSE "noSkill"

\* parseAIResponse(response, 'skill')
parseSkillResponse(answer) ==
    IF answer = "unparseable" THEN "noSkill" ELSE validateSkillResponse(answer)

\* The answers that validation turns down or that cannot be parsed
InvalidSkillAnswers == {"unparseable", "notBoolean", "unknownSkill"}

\* What the advisor can answer to the move prompt: text that cannot be parsed
\* or a pair of numbers, in the board or not
MoveAnswersOn(coords) ==
    {[parsed |-> FALSE, x |-> -1, y |-> -1]}
      \cup {[parsed |-> TRUE, x |-> c[1], y |-> c[2]] : c \in coords}

MoveAnswers == MoveAnswersOn(Coords)

\* parseAIResponse(response, 'move'): validateMoveResponse, and the random
\* move of getFallbackMove() when it throws
parseMoveResponse(b, answer) ==
    IF answer.parsed /\ isValidCoordinate(answer.x, answer.y, Size(b))
    THEN {<<answer.x, answer.y>>}
    ELSE getRandomMove(b)

\* How the last decision of the AI turn was reached: by the advisor's answer,
\* by the exhaustion of the attempts, or without the advisor
NoAnswer ==
    [kind |-> "none", via |-> "none", skillAnswer |-> "none",
     moveAnswer |-> [parsed |-> FALSE, x |-> -1, y |-> -1]]

Answer(kind, via, skillAnswer, moveAnswer) ==
    [kind |-> kind, via |-> via, skillAnswer |-> skillAnswer,
     moveAnswer |-> moveAnswer]

\* No call in progress
Idle(smartAI, last) ==
    [kind |-> "none", phase |-> "none", attempt |-> 0, smartAI |-> smartAI,
     seen |-> 0, skills |-> {}, rule |-> "noSkill", boardState |-> <<>>,
     last |-> last]

\* shouldUseSkill up to its await: the rule decides, or the advisor is called
beginShouldUseSkill(G, smartAI, last) ==
    LET seen == getRecentMoves(G.history, recentStatesCount)
        skills == getAvailableSkills(G, AI)
    IN  {[kind |-> "skill", phase |-> IF rule = "noSkill" THEN "fetch" ELSE "local",
          attempt |-> 0, smartAI |-> smartAI, seen |-> seen, skills |-> skills,
          rule |-> rule, boardState |-> G.board, last |-> last]
           : rule \in getRuleBasedSkillDecision(G.board, skills, seen)}

\* makeMove up to its await: the evaluator decides, or the advisor is called
beginMakeMove(G, smartAI, last) ==
    {[kind |-> "move",
      phase |-> IF smartAI /\ getSmartAIMove(G.board) # {} THEN "local" ELSE "fetch",
      attempt |-> 0, smartAI |-> smartAI,
      seen |-> getRecentMoves(G.history, recentStatesCount),
      skills |-> getAvailableSkills(G, AI), rule |-> "noSkill",
      boardState |-> G.board, last |-> last]}

\* The call the AI turn waits on after a step of the controller
CallNext(last) ==
    call' \in
      IF aiWait'.skill > aiWait.skill THEN beginShouldUseSkill(Game', call.smartAI, last)
      ELSE IF aiWait'.move > aiWait.move THEN beginMakeMove(Game', call.smartAI, last)
      ELSE IF aiWait' = aiWait THEN {[call EXCEPT !.last = last]}
      ELSE {Idle(call.smartAI, last)}

Controller == <<board, history, skillsUsed, gameStatus, currentPlayer, winner,
                moveCount, lastMove, timers, anims, aiWait, ret, useLog>>

\* fetch resolves with a response that is ok
fetchResolves ==
    /\ call.phase = "fetch"
    /\ call' = [call EXCEPT !.phase = "body"]
    /\ UNCHANGED Controller

\* An attempt that is not the last fails: fetch rejects (network, abort on
\* timeout), the status is not ok, or the body is no JSON of the expected
\* form; the next attempt follows a delay
attemptFails ==
    /\ call.phase \in {"fetch", "body"}
    /\ call.attempt < MAX_RETRIES - 1
    /\ call' = [call EXCEPT !.phase = "delay"]
    /\ UNCHANGED Controller

retryDelayDone ==
    /\ call.phase = "delay"
    /\ call' = [call EXCEPT !.phase = "fetch", !.attempt = @ + 1]
    /\ UNCHANGED Controller

\* The last attempt fails: callQwenAPI throws, shouldUseSkill returns the rule
\* decision and makeMove returns getFallbackMove(boardState)
attemptsExhausted ==
    /\ call.phase \in {"fetch", "body"}
    /\ call.attempt = MAX_RETRIES - 1
    /\ LET last == Answer(call.kind, "exhausted", "none", NoAnswer.moveAnswer)
       IN  IF call.kind = "skill"
           THEN aiSkillDecision(call.rule) /\ CallNext(last)
           ELSE \E m \in getFallbackMove(call.boardState, call.smartAI) :
                  aiMoveDecision(m[1], m[2]) /\ CallNext(last)

\* The body of the response to the skill prompt arrives
advisorSkillAnswer(answer) ==
    /\ call.phase = "body"
    /\ call.kind = "skill"
    /\ LET parsed == parseSkillResponse(answer)
           decisions ==
               IF parsed # "noSkill" THEN {parsed}
               ELSE UNION {IF force THEN getForceSkillDecision(call.skills)
                                    ELSE {"noSkill"}
                             : force \in shouldForceSkillUse(call.boardState,
                                                             call.skills, call.seen)}
       IN  \E d \in decisions :
             /\ aiSkillDecision(d)
             /\ CallNext(Answer("skill", "advisor", answer, NoAnswer.moveAnswer))

\* The body of the response to the move prompt arrives
advisorMoveAnswer(answer) ==
    /\ call.phase = "body"
    /\ call.kind = "move"
    /\ \E m \in parseMoveResponse(call.boardState, answer) :
         /\ aiMoveDecision(m[1], m[2])
         /\ CallNext(Answer("move", "advisor", "none", answer))

\* The promise of a decision taken without the advisor resolves
localDecision ==
    /\ call.phase = "local"
    /\ LET last == Answer(call.kind, "local", "none", NoAnswer.moveAnswer)
       IN  IF call.kind = "skill"
           THEN aiSkillDecision(call.rule) /\ CallNext(last)
           ELSE \E m \in getSmartAIMove(call.boardState) :
                  aiMoveDecision(m[1], m[2]) /\ CallNext(last)

InitAdvisor ==
    /\ StartWith(Constructed(BoardSize))
    /\ anims = <<>>
    /\ aiWait = [skill |-> 0, move |-> 0]
    /\ ret = Ret("startNewGame", EMPTY, "noSkill", -1, -1, TRUE, FALSE, TRUE)
    /\ useLog = <<>>
    /\ \E smartAI \in BOOLEAN : call = Idle(smartAI, NoAnswer)

NextAdvisor ==
    \/ startNewGame /\ Bounded' /\ call' = Idle(call.smartAI, NoAnswer)
    \/ \E c \in Coords : handlePlayerMove(c[1], c[2]) /\ ret'.ok /\ Bounded' /\ UNCHANGED call
    \/ handleAITurn /\ Bounded' /\ CallNext(call.last)
    \/ fetchResolves
    \/ attemptFails
    \/ retryDelayDone
    \/ attemptsExhausted /\ Bounded'
    \/ \E a \in SkillAnswers : advisorSkillAnswer(a) /\ Bounded'
    \/ \E a \in MoveAnswers : advisorMoveAnswer(a) /\ Bounded'
    \/ localDecision /\ Bounded'
    \/ animationDone /\ Bounded' /\ CallNext(call.last)

\* The clicks that handlePlayerMove turns down change nothing in the game and
\* are left out of NextAdvisor
SpecAdvisor == InitAdvisor /\ [][NextAdvisor]_vars

(***************************************************************************)
(* Fairness.  What the browser guarantees: a timer that was set fires      *)
(* (setTimeout, Utils.delay), a promise that is resolved runs its          *)
(* continuation, and fetch settles, at the latest when the abort timer of  *)
(* callQwenAPI fires.  callQwenAPI clears that timer as soon as fetch has  *)
(* resolved, before it awaits response.json(): the read of the body has no *)
(* deadline, and no fairness is assumed for the steps that end it.         *)
(***************************************************************************)
TimerFires == handleAITurn /\ Bounded' /\ CallNext(call.last)

AnimationEnds == animationDone /\ Bounded' /\ CallNext(call.last)

FetchSettles ==
    /\ call.phase = "fetch"
    /\ (fetchResolves \/ attemptFails \/ (attemptsExhausted /\ Bounded'))

BodyArrives ==
    /\ call.phase = "body"
    /\ \/ attemptFails
       \/ attemptsExhausted /\ Bounded'
       \/ \E a \in SkillAnswers : advisorSkillAnswer(a) /\ Bounded'
       \/ \E a \in MoveAnswers : advisorMoveAnswer(a) /\ Bounded'

SpecAdvisorFair ==
    /\ SpecAdvisor
    /\ WF_vars(TimerFires)
    /\ WF_vars(AnimationEnds)
    /\ WF_vars(FetchSettles)
    /\ WF_vars(retryDelayDone)
    /\ WF_vars(localDecision /\ Bounded')

\* The same, should every read of a response body end
SpecAdvisorBodyFair == SpecAdvisorFair /\ WF_vars(BodyArrives)

\* The bounds of the model leave room for what one AI turn adds: two
\* snapshots, one move, one timer and one suspended skill
Room ==
    /\ Len(history) + 2 <= MaxHistory
    /\ moveCount + 1 <= MaxMoves
    /\ timers + 1 <= MaxTimers
    /\ Len(useLog) + Len(anims) < MaxSkillUses

AITurnStarted ==
    /\ AIBusy > 0
    /\ gameStatus = PLAYING
    /\ currentPlayer = AI
    /\ getEmptyPositions(board) # {}
    /\ Room

\* C13 (progress): an AI turn that has started while the game is playing, the
\* AI is to move and a cell is empty eventually finishes, whatever the advisor
\* does
C13_AITurnFinishes == AITurnStarted ~> (AIBusy = 0)

\* The step that ends an AI turn
AITurnEnds == AIBusy > 0 /\ AIBusy' = 0

\* C13 (outcome): the step that ends an AI turn places exactly one AI stone on
\* a cell that was empty, or applies a rewind; after it the human is to move,
\* an AI turn is scheduled or the game has ended
C13_AITurnOutcome ==
    [][AITurnEnds
       => /\ \/ /\ ret'.op = "aiMove"
                /\ \E c \in getEmptyPositions(board) :
                     board' = SetCell(board, c[1], c[2], AI)
             \/ /\ ret'.op = "aiUseSkill" /\ ret'.skill = "timeRewind" /\ ret'.ok
          /\ \/ currentPlayer' = HUMAN
             \/ timers' > 0
             \/ gameStatus' = ENDED]_vars

(***************************************************************************)
(* Arrays and objects with their identity.  In this specification the     *)
(* board, the usage flags and every snapshot are objects [ref, val]: two  *)
(* holders of the same ref hold the same JavaScript object, and a write   *)
(* through a ref changes the value at every holder of that ref.            *)
(* Utils.deepClone returns an object with a new ref.  The history store   *)
(* is used as the controller uses it (saveCurrentState, restoreGameState) *)
(* and by a caller that writes into the states it has been returned.      *)
(* Only the equality of references matters: after every step they are     *)
(* renumbered in the order of their holders.                               *)
(***************************************************************************)
AliasBoardSize == 1   \* side of the board
AliasMaxLen == 2      \* snapshots in the history
AliasSkills == {"flyingSand"}   \* the skills whose flags are set
AliasPlayers == {HUMAN}         \* the players whose stones and flags are written

Obj(ref, val) == [ref |-> ref, val |-> val]

NoObj == Obj(0, <<>>)

\* No clone: the object itself
sameObject(obj, fresh) == obj

\* Utils.deepClone: an equal value in a new object
deepClone(obj, fresh) == Obj(fresh, obj.val)

\* The objects of the program: the live board and flags, the history, and
\* the state last returned to the caller
Heap == [board |-> board, skillsUsed |-> skillsUsed, history |-> history,
         state |-> ret.state]

StateRefSeq(state) ==
    IF state = NoObj THEN <<>>
    ELSE <<state.ref, state.val.boardState.ref, state.val.skillsUsed.ref>>

RECURSIVE HistoryRefSeq(_)
HistoryRefSeq(h) ==
    IF h = <<>> THEN <<>> ELSE StateRefSeq(Head(h)) \o HistoryRefSeq(Tail(h))

\* The references of the heap H, in the order of their holders
RefSeq(H) ==
    <<H.board.ref, H.skillsUsed.ref>> \o HistoryRefSeq(H.history)
      \o StateRefSeq(H.state)

\* The i-th reference that no object of the heap has
Fresh(i) == Len(RefSeq(Heap)) + i

\* The heap H with its references renumbered by first holder
Renumbered(H) ==
    LET refs == RefSeq(H)
        new(r) == CHOOSE i \in 1..Len(refs) :
                     refs[i] = r /\ \A j \in 1..(i - 1) : refs[j] # r
        obj(o) == Obj(new(o.ref), o.val)
        st(state) ==
            IF state = NoObj THEN NoObj
            ELSE Obj(new(state.ref),
                     [state.val EXCEPT !.boardState = obj(@), !.skillsUsed = obj(@)])
    IN  [board |-> obj(H.board), skillsUsed |-> obj(H.skillsUsed),
         history |-> [i \in 1..Len(H.history) |-> st(H.history[i])],
         state |-> st(H.state)]

AliasRet(op, state) == [op |-> op, state |-> state]

\* The step of operation op that leaves the heap H
SetHeap(op, H) ==
    /\ board' = Renumbered(H).board
    /\ skillsUsed' = Renumbered(H).skillsUsed
    /\ history' = Renumbered(H).history
    /\ ret' = AliasRet(op, Renumbered(H).state)
    /\ UNCHANGED <<gameStatus, winner, moveCount, lastMove,
                   timers, anims, aiWait, useLog, call>>

\* this.board[x][y] = v through the reference r, seen at the holder o
writeCell(o, r, x, y, v) ==
    IF o.ref = r THEN Obj(o.ref, SetCell(o.val, x, y, v)) ELSE o

\* skillsUsed[player][skillType] = true through the reference r
writeFlag(o, r, player, skillType) ==
    IF o.ref = r THEN Obj(o.ref, [o.val EXCEPT ![player][skillType] = TRUE]) ELSE o

\* state.currentPlayer = player through the reference r
writePlayer(state, r, player) ==
    IF state.ref = r
    THEN Obj(state.ref, [state.val EXCEPT !.currentPlayer = player]) ELSE state

Same(o) == o

\* A write seen in a state: in its board, its flags or the state itself
InState(state, wb(_), wf(_), ws(_)) ==
    IF state = NoObj THEN state
    ELSE LET st == ws(state)
         IN  Obj(st.ref, [st.val EXCEPT !.boardState = wb(@), !.skillsUsed = wf(@)])

\* A write reaches every holder of the object written
Written(H, wb(_), wf(_), ws(_)) ==
    [board |-> wb(H.board), skillsUsed |-> wf(H.skillsUsed),
     history |-> [i \in 1..Len(H.history) |-> InState(H.history[i], wb, wf, ws)],
     state |-> InState(H.state, wb, wf, ws)]

\* placePiece / removePiece on the live board, as the moves and the scatter
\* and remove skills do
liveWriteCell(x, y, v) ==
    LET wb(o) == writeCell(o, board.ref, x, y, v)
    IN  SetHeap("liveWrite", Written(Heap, wb, Same, Same)) /\ UNCHANGED currentPlayer

\* The usage flag of a skill is set on the live flags
liveWriteFlag(player, skillType) ==
    LET wf(o) == writeFlag(o, skillsUsed.ref, player, skillType)
    IN  SetHeap("liveWrite", Written(Heap, Same, wf, Same)) /\ UNCHANGED currentPlayer

\* The caller writes into the board of the state it was returned
callerWriteCell(x, y, v) ==
    /\ ret.state # NoObj
    /\ LET wb(o) == writeCell(o, ret.state.val.boardState.ref, x, y, v)
       IN  SetHeap("callerWrite", Written(Heap, wb, Same, Same))
    /\ UNCHANGED currentPlayer

\* The caller writes into the flags of the state it was returned
callerWriteFlag(player, skillType) ==
    /\ ret.state # NoObj
    /\ LET wf(o) == writeFlag(o, ret.state.val.skillsUsed.ref, player, skillType)
       IN  SetHeap("callerWrite", Written(Heap, Same, wf, Same))
    /\ UNCHANGED currentPlayer

\* The caller writes a field of the state it was returned
callerWritePlayer(player) ==
    /\ ret.state # NoObj
    /\ LET ws(o) == writePlayer(o, ret.state.ref, player)
       IN  SetHeap("callerWrite", Written(Heap, Same, Same, ws))
    /\ UNCHANGED currentPlayer

\* deepClone of a state: the state, its board and its flags are new objects
cloneState(state, i) ==
    LET top == deepClone(state, Fresh(i))
    IN  Obj(top.ref, [top.val EXCEPT !.boardState = deepClone(@, Fresh(i + 1)),
                                     !.skillsUsed = deepClone(@, Fresh(i + 2))])

\* saveCurrentState: saveState(toArray(), currentPlayer, getSkillsUsed(),
\* moveCount); toArray, getSkillsUsed and saveState clone; the state is a new
\* object; the oldest state is dropped past maxHistorySize
aliasSaveState ==
    /\ Len(history) < AliasMaxLen
    /\ LET state == Obj(Fresh(1),
                        [boardState |-> deepClone(deepClone(board, Fresh(2)), Fresh(3)),
                         currentPlayer |-> currentPlayer,
                         skillsUsed |-> deepClone(deepClone(skillsUsed, Fresh(4)), Fresh(5)),
                         moveCount |-> moveCount])
           h1 == Append(history, state)
       IN  SetHeap("saveState",
                   [Heap EXCEPT !.history = IF Len(h1) > maxHistorySize
                                            THEN Tail(h1) ELSE h1])
    /\ UNCHANGED currentPlayer

aliasGetCurrentState ==
    /\ SetHeap("getCurrentState",
               [Heap EXCEPT !.state = IF Len(history) = 0 THEN NoObj
                                      ELSE cloneState(history[Len(history)], 1)])
    /\ UNCHANGED currentPlayer

aliasGetStateAt(index) ==
    /\ SetHeap("getStateAt",
               [Heap EXCEPT !.state = IF index < 0 \/ index >= Len(history) THEN NoObj
                                      ELSE cloneState(history[index + 1], 1)])
    /\ UNCHANGED currentPlayer

aliasRewindSteps(steps) ==
    /\ LET popped == popTimes(history, steps)
       IN  IF steps <= 0 \/ steps > Len(history)
           THEN SetHeap("rewindSteps", [Heap EXCEPT !.state = NoObj])
           ELSE SetHeap("rewindSteps",
                        [Heap EXCEPT !.history = popped,
                                     !.state = IF Len(popped) = 0 THEN NoObj
                                               ELSE cloneState(popped[Len(popped)], 1)])
    /\ UNCHANGED currentPlayer

\* restoreGameState(state) with the state last returned: fromArray and
\* setSkillsUsed clone what they are given
aliasRestoreGameState ==
    /\ ret.state # NoObj
    /\ SetHeap("restoreGameState",
               [Heap EXCEPT !.board = deepClone(ret.state.val.boardState, Fresh(1)),
                            !.skillsUsed = deepClone(ret.state.val.skillsUsed, Fresh(2))])
    /\ currentPlayer' = ret.state.val.currentPlayer

InitAlias ==
    /\ board = Obj(1, createEmptyBoard(AliasBoardSize))
    /\ skillsUsed = Obj(2, resetSkills)
    /\ history = <<>>
    /\ gameStatus = PLAYING
    /\ currentPlayer = HUMAN
    /\ winner = NoWinner
    /\ moveCount = 0
    /\ lastMove = NoMove
    /\ timers = 0
    /\ anims = <<>>
    /\ aiWait = [skill |-> 0, move |-> 0]
    /\ ret = AliasRet("constructor", NoObj)
    /\ useLog = <<>>
    /\ call = NoCall

AliasCells == Cells(createEmptyBoard(AliasBoardSize))

NextAlias ==
    \/ \E c \in AliasCells, v \in {EMPTY} \cup AliasPlayers : liveWriteCell(c[1], c[2], v)
    \/ \E p \in AliasPlayers, s \in AliasSkills : liveWriteFlag(p, s)
    \/ \E c \in AliasCells, v \in {EMPTY} \cup AliasPlayers : callerWriteCell(c[1], c[2], v)
    \/ \E p \in AliasPlayers, s \in AliasSkills : callerWriteFlag(p, s)
    \/ \E p \in Players : callerWritePlayer(p)
    \/ aliasSaveState
    \/ aliasGetCurrentState
    \/ \E i \in -1..AliasMaxLen : aliasGetStateAt(i)
    \/ \E n \in 0..(AliasMaxLen + 1) : aliasRewindSteps(n)
    \/ aliasRestoreGameState

SpecAlias == InitAlias /\ [][NextAlias]_vars

\* What a state holds, without the identities
Plain(state) ==
    [boardState |-> state.val.boardState.val,
     currentPlayer |-> state.val.currentPlayer,
     skillsUsed |-> state.val.skillsUsed.val,
     moveCount |-> state.val.moveCount]

Snapshots(h) == [i \in 1..Len(h) |-> Plain(h[i])]

\* C14: a write to the live board or to the live usage flags, and a write
\* into a state returned by getCurrentState, getStateAt or rewindSteps, leave
\* every snapshot of the history as it was
C14_SnapshotsIsolated ==
    [][ret'.op \in {"liveWrite", "callerWrite"}
       => Snapshots(history') = Snapshots(history)]_vars

\* A state returned by the history was written into and the live board and
\* flags were written after the last save: all differ from the last snapshot
C14_Witness ==
    /\ ret.op = "callerWrite"
    /\ Len(history) > 0
    /\ Plain(ret.state) # Plain(history[Len(history)])
    /\ board.val # history[Len(history)].val.boardState.val
    /\ skillsUsed.val # history[Len(history)].val.skillsUsed.val

(***************************************************************************)
(* The capacity of the history: states are saved one after the other, as  *)
(* the moves of a long game save them, each with the move count of its    *)
(* move and the player to move, until the history has been full for a     *)
(* few saves.                                                              *)
(***************************************************************************)
CapMaxSaves == 104    \* calls of saveState

InitCap ==
    /\ StartWith([Constructed(BoardSize) EXCEPT !.history = <<>>])
    /\ anims = <<>>
    /\ aiWait = [skill |-> 0, move |-> 0]
    /\ ret = HistRet("constructor", 0, NoState)
    /\ useLog = <<>>
    /\ call = NoCall

\* A move is counted and the state is saved (moveCount++, saveCurrentState)
capSaveState(player) ==
    /\ moveCount < CapMaxSaves
    /\ moveCount' = moveCount + 1
    /\ currentPlayer' = player
    /\ history' = saveState(history, board, player, skillsUsed, moveCount + 1)
    /\ ret' = HistRet("saveState", 0, NoState)
    /\ UNCHANGED <<board, skillsUsed, gameStatus, winner, lastMove, timers,
                   anims, aiWait, useLog, call>>

\* The two players alternate; either may open the game
NextCap ==
    \E p \in Players : (moveCount = 0 \/ p # currentPlayer) /\ capSaveState(p)

SpecCap == InitCap /\ [][NextCap]_vars

\* C15: a save leaves at most 100 snapshots, the new one last; the snapshots
\* before it are those of the history before the save, in their order, all
\* of them when they were fewer than 100 and all but the oldest otherwise
C15_HistoryCapacity ==
    [][ret'.op = "saveState"
       => /\ Len(history') <= maxHistorySize
          /\ Len(history') > 0
          /\ history'[Len(history')].moveCount = moveCount'
          /\ history'[Len(history')].currentPlayer = currentPlayer'
          /\ SubSeq(history', 1, Len(history') - 1)
               = IF Len(history) < maxHistorySize THEN history ELSE Tail(history)]_vars

\* The history is full and its oldest snapshot is no longer the first one saved
C15_Witness ==
    /\ ret.op = "saveState"
    /\ Len(history) = maxHistorySize
    /\ history[1].moveCount > 1

\* No handler is suspended: no skill in its animation, no AI turn waiting
NoActionInProgress == anims = <<>> /\ aiWait.skill + aiWait.move = 0

\* C16: whenever no action is in progress, the history holds a snapshot and
\* the board of its last snapshot is the live board
C16_LastSnapshotIsLiveBoard ==
    NoActionInProgress
      => Len(history) > 0 /\ history[Len(history)].boardState = board

(***************************************************************************)
(* The move of the AI on a board where the opponent can complete five.    *)
(* makeMove returns getSmartAIMove's move, which handleAITurn places.     *)
(* The difficulty profile changes the scores and getBestMove only, and    *)
(* getSmartAIMove returns the first urgent threat before it calls          *)
(* getBestMove: on the boards below the move is the same under every      *)
(* profile, the hard one included.                                         *)
(***************************************************************************)
SmartRet(op, x, y) == [op |-> op, x |-> x, y |-> y]

\* The empty cells of b where a stone of player completes five
completesFive(b, player) ==
    {c \in getEmptyPositions(b) :
       HasFive(SetCell(b, c[1], c[2], player), c[1], c[2], player)}

\* The lines of the board that can hold five stones
LongLines == {l \in Lines : Cardinality(l) >= WinLength}

\* All stones of player on the line l but for the cell hole
FourOn(l, hole, player) == [c \in l |-> IF c = hole THEN EMPTY ELSE player]

\* The stones of two lines that share no cell
Both(s1, s2) ==
    [c \in DOMAIN s1 \cup DOMAIN s2 |-> IF c \in DOMAIN s1 THEN s1[c] ELSE s2[c]]

SmartStart(b) ==
    /\ completesFive(b, HUMAN) # {}
    /\ StartWith([Constructed(WinBoardSize) EXCEPT !.board = b, !.currentPlayer = AI])

\* The boards: any stones on one line, or stones of the opponent on one line
\* and stones of the AI on another, each with one cell of the line left empty
InitSmart ==
    /\ \/ \E line \in Lines : \E stones \in [line -> {EMPTY, HUMAN, AI}] :
            SmartStart(BoardOf(stones))
       \/ \E l1 \in LongLines, l2 \in LongLines :
            /\ l1 \cap l2 = {}
            /\ \E h1 \in l1, h2 \in l2 :
                 SmartStart(BoardOf(Both(FourOn(l1, h1, HUMAN), FourOn(l2, h2, AI))))
    /\ anims = <<>>
    /\ aiWait = [skill |-> 0, move |-> 0]
    /\ ret = SmartRet("position", -1, -1)
    /\ useLog = <<>>
    /\ call = NoCall

\* makeMove returns the move of getSmartAIMove and handleAITurn places it
smartAIMove ==
    /\ ret.op = "position"
    /\ \E m \in getSmartAIMove(board) :
         /\ isValidPosition(board, m[1], m[2]) /\ isEmpty(board, m[1], m[2])
         /\ board' = placePiece(board, m[1], m[2], AI).board
         /\ ret' = SmartRet("makeMove", m[1], m[2])
    /\ UNCHANGED <<history, skillsUsed, gameStatus, currentPlayer, winner,
                   moveCount, lastMove, timers, anims, aiWait, useLog, call>>

NextSmart == smartAIMove

SpecSmart == InitSmart /\ [][NextSmart]_vars

\* C17: when the opponent has a cell that completes five, the move of the AI
\* is such a cell, whatever the other candidates are
C17_BlocksOpenFour ==
    [][(ret'.op = "makeMove" /\ completesFive(board, HUMAN) # {})
       => /\ <<ret'.x, ret'.y>> \in completesFive(board, HUMAN)
          /\ board' = SetCell(board, ret'.x, ret'.y, AI)]_vars

\* The AI has blocked the opponent where it could have won itself elsewhere
C17_Witness ==
    /\ ret.op = "makeMove"
    /\ LET before == SetCell(board, ret.x, ret.y, EMPTY)
       IN  /\ <<ret.x, ret.y>> \in completesFive(before, HUMAN)
           /\ completesFive(before, AI) \ {<<ret.x, ret.y>>} # {}

\* C22: whenever the AI has an empty cell that completes five for itself, the
\* move decision returns such a cell, also when the opponent has a winning
\* cell of their own
C22_WinBeforeBlock ==
    [][(ret'.op = "makeMove" /\ completesFive(board, AI) # {})
       => <<ret'.x, ret'.y>> \in completesFive(board, AI)]_vars

(***************************************************************************)
(* The move decision on a board where the evaluator tells the cells       *)
(* apart (specification SpecMove): the opening moves of a game in which   *)
(* the advisor declines every skill.                                       *)
(***************************************************************************)
MoveBoardSize == 3    \* side of the board
MoveMaxMoves == 3     \* the move count

MoveCells == Cells(createEmptyBoard(MoveBoardSize))

MoveCoords == MoveCells \cup {<<-1, 0>>, <<0, MoveBoardSize>>}

BoundedMove == moveCount <= MoveMaxMoves /\ timers <= MaxTimers

InitMove ==
    /\ StartWith(Constructed(MoveBoardSize))
    /\ anims = <<>>
    /\ aiWait = [skill |-> 0, move |-> 0]
    /\ ret = Ret("startNewGame", EMPTY, "noSkill", -1, -1, TRUE, FALSE, TRUE)
    /\ useLog = <<>>
    /\ \E smartAI \in BOOLEAN : call = Idle(smartAI, NoAnswer)

NextMove ==
    \/ \E c \in MoveCells : handlePlayerMove(c[1], c[2]) /\ ret'.ok /\ BoundedMove' /\ UNCHANGED call
    \/ handleAITurn /\ BoundedMove' /\ CallNext(call.last)
    \/ fetchResolves
    \/ attemptFails
    \/ retryDelayDone
    \/ attemptsExhausted /\ BoundedMove'
    \/ \E a \in {"decline", "unparseable"} : advisorSkillAnswer(a) /\ BoundedMove'
    \/ \E a \in MoveAnswersOn(MoveCoords) : advisorMoveAnswer(a) /\ BoundedMove'
    \/ localDecision /\ BoundedMove'

SpecMove == InitMove /\ [][NextMove]_vars

\* The step in which the advisor's answer to the prompt of the given kind
\* arrives and is turned into the decision of the AI turn
AdvisorAnswered(kind) ==
    /\ call.kind = kind
    /\ call.phase = "body"
    /\ call'.last.kind = kind
    /\ call'.last.via = "advisor"
    /\ call'.phase # "delay"

\* The answer to the move prompt names no empty cell of board b: it cannot be
\* parsed, or its cell is outside the board or holds a stone
InvalidMoveAnswer(answer, b) ==
    \/ ~answer.parsed
    \/ ~isValidPosition(b, answer.x, answer.y)
    \/ ~isEmpty(b, answer.x, answer.y)

\* C18: when the advisor's move response cannot be parsed or names no empty
\* cell of the board, the stone of the AI goes to a best-scoring candidate of
\* the local evaluator
C18_InvalidMoveReplacedByBest ==
    [][(AdvisorAnswered("move") /\ InvalidMoveAnswer(call'.last.moveAnswer, board))
       => \E c \in bestCandidates(board) :
            board' = SetCell(board, c[1], c[2], AI)]_vars

\* The step in which the last attempt of the call for the skill prompt fails
SkillAttemptsExhausted ==
    /\ call.kind = "skill"
    /\ call.phase \in {"fetch", "body"}
    /\ call.attempt = MAX_RETRIES - 1
    /\ call'.last.kind = "skill"
    /\ call'.last.via = "exhausted"
    /\ ret' # ret

\* The step decides "no skill": the AI uses no skill on this turn and goes on
\* to its move
DecidesNoSkill ==
    /\ ret'.op = "aiNoSkill"
    /\ skillsUsed' = skillsUsed
    /\ board' = board
    /\ anims' = anims
    /\ aiWait'.move = aiWait.move + 1

\* C19: when the advisor is consulted for the skill decision, a response that
\* cannot be parsed or fails validation, and the failure of the last attempt
\* of the call, both end in the decision "no skill": no skill is used by the
\* AI on that turn
C19_InvalidSkillAnswerIsNoSkill ==
    [][(\/ AdvisorAnswered("skill") /\ call'.last.skillAnswer \in InvalidSkillAnswers
        \/ SkillAttemptsExhausted)
       => DecidesNoSkill]_vars

\* An AI turn went on to its move after a response with an unknown skill type
C19_Witness ==
    /\ call.last.kind = "skill"
    /\ call.last.via = "advisor"
    /\ call.last.skillAnswer = "unknownSkill"
    /\ ret.op = "aiNoSkill"
    /\ aiWait.move = 1

\* C20: on an AI turn where the move count that the skill decision sees is
\* below the early game threshold, the AI uses no skill, whatever the advisor
\* answers
C20_NoSkillInEarlyGame ==
    [][(AdvisorAnswered("skill") /\ call.seen < earlyGameMoves)
       => DecidesNoSkill]_vars

(***************************************************************************)
(* AI turns side by side (specification SpecTurns): the game of SpecReset *)
(* with room for a second handleAITurn call while one is suspended.  The  *)
(* advisor declines every skill.                                           *)
(***************************************************************************)
TurnsMaxAI == 2       \* handleAITurn calls in progress

NextTurns ==
    \/ resetGame /\ Bounded' /\ UNCHANGED call
    \/ \E c \in Coords : handlePlayerMove(c[1], c[2]) /\ Bounded' /\ UNCHANGED call
    \/ handleAITurnUpTo(TurnsMaxAI) /\ Bounded' /\ UNCHANGED call
    \/ aiSkillDecision("noSkill") /\ Bounded' /\ UNCHANGED call
    \/ \E c \in Coords : aiMoveDecision(c[1], c[2]) /\ Bounded' /\ UNCHANGED call

SpecTurns == Init /\ [][NextTurns]_vars

\* C21: at any time at most one handleAITurn call is past its entry guard and
\* not yet finished
C21_OneAIDecisionAtATime == AIBusy <= 1

(***************************************************************************)
(* Rewinds of the AI (specification Spec).  A rewind of the AI that       *)
(* restores a snapshot whose player to move is the AI ends the AI turn    *)
(* and schedules a new one through restoreGameState.                       *)
(***************************************************************************)
\* The last useSkill call of the game that went through its animation was a
\* successful rewind of the AI
LastUseIsAIRewind ==
    /\ useLog # <<>>
    /\ useLog[Len(useLog)] = <<AI, "timeRewind", TRUE>>

\* The step starts a rewind of the AI
AIRewindBegins ==
    /\ ret'.op = "useSkillBegin"
    /\ ret'.player = AI
    /\ ret'.skill = "timeRewind"
    /\ anims' # anims

\* C23: the chain of AI turns that rewind and thereby start a further AI turn
\* ends after one rewind: an AI turn that follows a successful rewind of the
\* AI, with no other skill use in between, does not rewind again, so it goes
\* on to place its stone
C23_RewindChainEnds ==
    [][LastUseIsAIRewind => ~AIRewindBegins]_vars

\* The AI turn that a rewind of the AI has started is at its skill decision
C23_Witness ==
    /\ LastUseIsAIRewind
    /\ ret.op = "handleAITurn"
    /\ ret.ok
    /\ currentPlayer = AI
    /\ aiWait.skill = 1
    /\ getAvailableSkills(Game, AI) # {}

(***************************************************************************)
(* The writes of SmartAI to the board array it is given (specification    *)
(* SpecScratch).  Its searches try a stone by writing it into the array   *)
(* (boardState[x][y] = player), look at the lines through the cell and    *)
(* write 0 back.  The operators below give the array as each function     *)
(* leaves it, write by write; the variable board stands for the array of  *)
(* the call and hard for the difficulty 'hard'.                            *)
(***************************************************************************)
\* The k-th cell of the board in the order of getEmptyPositions
CellAt(b, k) == <<k \div Size(b), k % Size(b)>>

\* findWinningMove without the write of 0 before its return of a found win
RECURSIVE findWinningMoveKeepStone(_, _, _, _)
findWinningMoveKeepStone(b0, b, k, player) ==
    LET c == CellAt(b0, k)
        b1 == SetCell(b, c[1], c[2], player)
    IN  IF k >= Size(b0) * Size(b0)
        THEN [board |-> b, found |-> FALSE, x |-> -1, y |-> -1]
        ELSE IF b0[c[1]][c[2]] # EMPTY
        THEN findWinningMoveKeepStone(b0, b, k + 1, player)
        ELSE IF smartCheckWin(b1, c[1], c[2], player)
        THEN [board |-> b1, found |-> TRUE, x |-> c[1], y |-> c[2]]
        ELSE findWinningMoveKeepStone(b0, SetCell(b1, c[1], c[2], EMPTY), k + 1, player)

RECURSIVE findWinningMoveRun(_, _, _, _)
\* findWinningMove from the k-th cell on: the array after, and the winning
\* cell if one was found.  b0 is the array at the call, whose empty positions
\* the loop visits, and b the array as the loop has left it so far
findWinningMoveRun(b0, b, k, player) ==
    LET c == CellAt(b0, k)
        b1 == SetCell(b, c[1], c[2], player)
    IN  IF k >= Size(b0) * Size(b0)
        THEN [board |-> b, found |-> FALSE, x |-> -1, y |-> -1]
        ELSE IF b0[c[1]][c[2]] # EMPTY
        THEN findWinningMoveRun(b0, b, k + 1, player)
        ELSE IF smartCheckWin(b1, c[1], c[2], player)
        THEN [board |-> SetCell(b1, c[1], c[2], EMPTY),
              found |-> TRUE, x |-> c[1], y |-> c[2]]
        ELSE findWinningMoveRun(b0, SetCell(b1, c[1], c[2], EMPTY), k + 1, player)

RECURSIVE tryEach(_, _, _, _, _)
\* The loop of findUrgentThreats and of findAdvancedTacticMove: at each empty
\* position the stone is written, the array is tested with the stone in it
\* and 0 is written back; threats are the positions found so far
tryEach(b0, b, k, player, threats) ==
    LET c == CellAt(b0, k)
        b1 == SetCell(b, c[1], c[2], player)
        after == SetCell(b1, c[1], c[2], EMPTY)
    IN  IF k >= Size(b0) * Size(b0) THEN [board |-> b, threats |-> threats]
        ELSE IF b0[c[1]][c[2]] # EMPTY THEN tryEach(b0, b, k + 1, player, threats)
        ELSE IF smartCheckWin(b1, c[1], c[2], player)
        THEN tryEach(b0, after, k + 1, player, threats \cup {c})
        ELSE tryEach(b0, after, k + 1, player, threats)

findUrgentThreatsRun(b, player) == tryEach(b, b, 0, player, {})

\* evaluatePosition: the stone of the AI, 0, the stone of the opponent, 0
evaluatePositionRun(b, x, y) ==
    LET b1 == SetCell(b, x, y, AI)
        b2 == SetCell(b1, x, y, EMPTY)
        b3 == SetCell(b2, x, y, HUMAN)
    IN  SetCell(b3, x, y, EMPTY)

RECURSIVE evaluateEach(_, _, _, _)
\* The loop of getBestMove over the empty positions; best is the highest score
\* so far, each score being read from the array as the loop has left it
evaluateEach(b0, b, k, best) ==
    LET c == CellAt(b0, k)
        score == evaluatePosition(b, c[1], c[2])
        after == evaluatePositionRun(b, c[1], c[2])
    IN  IF k >= Size(b0) * Size(b0) THEN b
        ELSE IF b0[c[1]][c[2]] # EMPTY THEN evaluateEach(b0, b, k + 1, best)
        ELSE IF score > best THEN evaluateEach(b0, after, k + 1, score)
        ELSE evaluateEach(b0, after, k + 1, best)

\* getBestMove: the array after.  Under 'hard' it returns from findWinningMove
\* as soon as one of the two players has a winning cell
getBestMoveRun(b, hard) ==
    LET empties == Cardinality(getEmptyPositions(b))
        own == findWinningMoveRun(b, b, 0, AI)
        other == findWinningMoveRun(b, own.board, 0, HUMAN)
    IN  IF empties = 0 \/ empties >= openingEmptyCells THEN b
        ELSE IF ~hard THEN evaluateEach(b, b, 0, -1)
        ELSE IF own.found THEN own.board
        ELSE IF other.found THEN other.board
        ELSE evaluateEach(b, tryEach(b, other.board, 0, AI, {}).board, 0, -1)

\* The arrays of the calls: stones of one player on one line of the board
InitScratch ==
    /\ \E line \in LongLines, p \in Players : \E stones \in [line -> {EMPTY, p}] :
         StartWith([Constructed(WinBoardSize) EXCEPT !.board = BoardOf(stones),
                                                     !.currentPlayer = AI])
    /\ anims = <<>>
    /\ aiWait = [skill |-> 0, move |-> 0]
    /\ ret = SmartRet("position", -1, -1)
    /\ useLog = <<>>
    /\ call = NoCall

\* A call of SmartAI on the array, as getBestMove and getSmartAIMove make it
ScratchCall(op, b, x, y) ==
    /\ ret.op = "position"
    /\ board' = b
    /\ ret' = SmartRet(op, x, y)
    /\ UNCHANGED <<history, skillsUsed, gameStatus, currentPlayer, winner,
                   moveCount, lastMove, timers, anims, aiWait, useLog, call>>

callEvaluatePosition ==
    \E c \in getEmptyPositions(board) :
        ScratchCall("evaluatePosition", evaluatePositionRun(board, c[1], c[2]), c[1], c[2])

callFindWinningMove ==
    \E p \in Players :
        LET r == findWinningMoveRun(board, board, 0, p)
        IN  ScratchCall("findWinningMove", r.board, r.x, r.y)

callFindUrgentThreats ==
    ScratchCall("findUrgentThreats", findUrgentThreatsRun(board, HUMAN).board, -1, -1)

callGetBestMove ==
    \E hard \in BOOLEAN :
        ScratchCall("getBestMove", getBestMoveRun(board, hard), -1, -1)

NextScratch ==
    \/ callEvaluatePosition
    \/ callFindWinningMove
    \/ callFindUrgentThreats
    \/ callGetBestMove

SpecScratch == InitScratch /\ [][NextScratch]_vars

\* C24: when evaluatePosition, findWinningMove, findUrgentThreats or
\* getBestMove returns, on an early return too, the board array passed in is
\* cell for cell what it was at the call
C24_EvaluationReverted ==
    [][ret'.op \in {"evaluatePosition", "findWinningMove",
                    "findUrgentThreats", "getBestMove"}
       => board' = board]_vars

\* findWinningMove has returned early, from the cell where it found a win
C24_Witness ==
    /\ ret.op = "findWinningMove"
    /\ ret.x >= 0
    /\ board[ret.x][ret.y] = EMPTY
    /\ completesFive(board, HUMAN) \cup completesFive(board, AI) # {}

(***************************************************************************)
(* One call of callQwenAPI on its own (specification SpecRetry): its loop *)
(* over the attempts, split at its awaits.  Here call holds the position  *)
(* of the loop, the failures of the attempts made so far, oldest first,   *)
(* and the waits of Utils.delay that were started, in milliseconds.        *)
(***************************************************************************)
\* The wait counted from the attempt's index instead of its number
retryDelayFromZero(attempt) == 1000 * attempt

\* Utils.delay(1000 * (attempt + 1)), attempt counting from 0
retryDelay(attempt) == 1000 * (attempt + 1)

\* What makes an attempt fail: fetch rejects, the abort timer fires, the
\* status is not ok, the body is no JSON, the JSON has no output.choices[0]
Failures == {"rejected", "aborted", "notOk", "noJson", "noChoices"}

InitRetry ==
    /\ StartWith(Constructed(BoardSize))
    /\ anims = <<>>
    /\ aiWait = [skill |-> 0, move |-> 0]
    /\ ret = Ret("callQwenAPI", EMPTY, "noSkill", -1, -1, FALSE, FALSE, TRUE)
    /\ useLog = <<>>
    /\ call = [phase |-> "fetch", attempt |-> 0, failed |-> <<>>, waits |-> <<>>]

\* The catch block: the last attempt rethrows, an earlier one starts the wait
catchError(failure) ==
    IF call.attempt = MAX_RETRIES - 1
    THEN [call EXCEPT !.phase = "thrown", !.failed = Append(@, failure)]
    ELSE [call EXCEPT !.phase = "delay", !.failed = Append(@, failure),
                      !.waits = Append(@, retryDelay(call.attempt))]

\* await fetch(...) settles: it rejects, or resolves with a status
qwenFetchSettles ==
    /\ call.phase = "fetch"
    /\ \/ \E f \in {"rejected", "aborted", "notOk"} : call' = catchError(f)
       \/ call' = [call EXCEPT !.phase = "body"]
    /\ UNCHANGED Controller

\* await response.json() settles: it rejects, or resolves with the data
qwenBodySettles ==
    /\ call.phase = "body"
    /\ \/ \E f \in {"noJson", "noChoices"} : call' = catchError(f)
       \/ call' = [call EXCEPT !.phase = "returned"]
    /\ UNCHANGED Controller

\* The wait is over: the loop goes on to the next attempt
qwenDelayDone ==
    /\ call.phase = "delay"
    /\ call' = [call EXCEPT !.phase = "fetch", !.attempt = @ + 1]
    /\ UNCHANGED Controller

NextRetry ==
    \/ qwenFetchSettles
    \/ qwenBodySettles
    \/ qwenDelayDone

SpecRetry == InitRetry /\ [][NextRetry]_vars

\* The requests made so far (the loop counts its attempts from 0)
Attempts == call.attempt + 1

\* C25: one call makes at most MAX_RETRIES requests; every request but the
\* last made follows a failed one; after the k-th failure (k < MAX_RETRIES) it
\* waits 1000 * k ms; it returns at the first success, and it throws after the
\* MAX_RETRIES-th failure with no further request or wait
C25_RetryBudget ==
    /\ Attempts <= MAX_RETRIES
    /\ Len(call.failed) \in {Attempts - 1, Attempts}
    /\ Len(call.waits) = Min(Len(call.failed), MAX_RETRIES - 1)
    /\ \A k \in 1..Len(call.waits) : call.waits[k] = 1000 * k
    /\ call.phase = "returned" => Len(call.failed) = Attempts - 1
    /\ call.phase = "thrown" <=> Len(call.failed) = MAX_RETRIES
    /\ call.phase = "delay" => Len(call.failed) = Attempts

\* The call has thrown after its third failure and two waits
C25_Witness ==
    /\ call.phase = "thrown"
    /\ Len(call.failed) = 3
    /\ call.waits = <<1000, 2000>>

(***************************************************************************)
(* A stone placed during the animation of a scatter (specification Spec)  *)
(***************************************************************************)
\* The board is the board the suspended call t was made on plus one stone of
\* the human, on a cell the call sampled as empty
PlacedDuring(t) ==
    \E c \in t.empties : board = [t.boardAtCall EXCEPT ![c[1]][c[2]] = HUMAN]

\* The step completes a scatter of the human
ScatterCompletes ==
    /\ anims # <<>>
    /\ Head(anims).skill = "flyingSand"
    /\ Head(anims).player = HUMAN
    /\ anims' = Tail(anims)
    /\ ret'.op = "handleSkillUse"
    /\ ret'.resumed
    /\ ret'.ok

\* C28: when the human has placed one stone during the animation of their
\* scatter, the board after the scatter holds the stones it held when the
\* scatter was called plus one
C28_ScatterKeepsPlacedStone ==
    [][(ScatterCompletes /\ PlacedDuring(Head(anims)))
       => getPieceCount(board') = getPieceCount(Head(anims).boardAtCall) + 1]_vars

(***************************************************************************)
(* The turn and the stones of the two players (specification Spec)        *)
(***************************************************************************)
\* No useSkill call of the game so far was a scatter or a removal
OnlyRewinds == \A i \in 1..Len(useLog) : useLog[i][2] = "timeRewind"

\* It is the human's turn and no callback has yet to run
HumanToMoveAtRest ==
    /\ gameStatus = PLAYING
    /\ currentPlayer = HUMAN
    /\ Pending = 0

\* C29: without scatter and removal, and rewinds included, the board holds as
\* many stones of the human as of the AI whenever it is the human's turn and
\* nothing is in progress
C29_CountsInStep ==
    (OnlyRewinds /\ HumanToMoveAtRest)
        => getPlayerPieceCount(board, HUMAN) = getPlayerPieceCount(board, AI)

(***************************************************************************)
(* The game once it has ended (specification Spec)                         *)
(***************************************************************************)
\* C30: from the end of a game to the start of the next one, the board, the
\* usage flags of the skills and the history do not change
C30_EndedIsFrozen ==
    [][(gameStatus = ENDED /\ gameStatus' = ENDED)
       => (board' = board /\ skillsUsed' = skillsUsed /\ history' = history)]_vars

(***************************************************************************)
(* Clicks on a skill button while useSkill calls of the human are still   *)
(* in their animation (specification SpecTwice).  No game is restarted    *)
(* and nobody rewinds, so that no usage flag is ever cleared.             *)
(***************************************************************************)
TwiceMaxAnims == 2    \* useSkill calls suspended in their animation

TwiceSkills == {"flyingSand", "mountainMover"}

NextTwice ==
    \/ \E c \in Coords : handlePlayerMove(c[1], c[2]) /\ Bounded' /\ UNCHANGED call
    \/ \E s \in TwiceSkills : handleSkillUseUpTo(s, TwiceMaxAnims) /\ Bounded' /\ UNCHANGED call
    \/ animationDone /\ Bounded' /\ UNCHANGED call
    \/ handleAITurn /\ Bounded' /\ UNCHANGED call
    \/ aiSkillDecision("noSkill") /\ Bounded' /\ UNCHANGED call
    \/ \E c \in Coords : aiMoveDecision(c[1], c[2]) /\ Bounded' /\ UNCHANGED call

SpecTwice == Init /\ [][NextTwice]_vars

\* The useSkill calls of player for skillType that have applied their effect
Applied(log, player, skillType) ==
    {i \in 1..Len(log) : log[i] = <<player, skillType, TRUE>>}

\* C27: of the useSkill calls of one player for one skill, overlapping ones
\* included, at most one applies the effect of the skill
C27_EffectAppliedOnce ==
    \A p \in Players, s \in TwiceSkills : Cardinality(Applied(useLog, p, s)) <= 1

(***************************************************************************)
(* The end of the game on a board that can hold five in a row             *)
(* (specification SpecEnd).  The game starts from a position played by    *)
(* alternate moves, after which the human has removed three stones; the   *)
(* players then place stones and rewind.                                   *)
(***************************************************************************)
EndBoardSize == 5     \* side of the board
EndMaxMoves == 9      \* the move count
EndMaxUses == 3       \* useSkill calls that reach their animation
EndRows == 1          \* last row of the cells the players choose from

\* The moves that lead to the position: the human, then the AI, and so on
EndMoves == <<<<0, 0>>, <<1, 0>>, <<0, 1>>, <<1, 1>>,
              <<0, 3>>, <<1, 3>>, <<0, 4>>, <<2, 2>>>>

\* The stones mountainMover drew in the position
EndRemoved == <<<<0, 0>>, <<0, 1>>, <<0, 3>>>>

RECURSIVE PlayedMoves(_)
\* The game after the first n of these moves
PlayedMoves(n) ==
    IF n = 0 THEN Constructed(EndBoardSize)
    ELSE LET G == PlayedMoves(n - 1)
             c == EndMoves[n]
         IN  IF G.currentPlayer = HUMAN
             THEN playerMove(G, c[1], c[2]).game
             ELSE aiPlace([G EXCEPT !.timers = @ - 1], c[1], c[2])

\* The game after the moves and the human's mountainMover
EndPosition ==
    LET G == PlayedMoves(Len(EndMoves))
        t == SkillTask(G, "mountainMover", HUMAN, EndRemoved, {})
    IN  afterSkill((CHOOSE o \in useSkillEnd(G, t) : o.ok).game)

EndSkills == {"timeRewind"}

EndCells == {c \in Cells(createEmptyBoard(EndBoardSize)) : c[1] <= EndRows}

BoundedEnd ==
    /\ moveCount <= EndMaxMoves
    /\ timers <= MaxTimers
    /\ Len(useLog) + Len(anims) <= EndMaxUses

InitEnd ==
    /\ StartWith(EndPosition)
    /\ anims = <<>>
    /\ aiWait = [skill |-> 0, move |-> 0]
    /\ ret = Ret("handleSkillUse", HUMAN, "mountainMover", -1, -1, TRUE, TRUE, TRUE)
    /\ useLog = << <<HUMAN, "mountainMover", TRUE>> >>
    /\ call = NoCall

NextEnd ==
    \/ \E c \in EndCells : handlePlayerMove(c[1], c[2]) /\ ret'.ok /\ BoundedEnd' /\ UNCHANGED call
    \/ \E s \in EndSkills : handleSkillUse(s) /\ ret'.ok /\ BoundedEnd' /\ UNCHANGED call
    \/ animationDone /\ BoundedEnd' /\ UNCHANGED call
    \/ handleAITurn /\ UNCHANGED call
    \/ \E d \in EndSkills \cup {"noSkill"} : aiSkillDecision(d) /\ BoundedEnd' /\ UNCHANGED call
    \/ \E c \in EndCells : aiMoveDecision(c[1], c[2]) /\ BoundedEnd' /\ UNCHANGED call

SpecEnd == InitEnd /\ [][NextEnd]_vars

\* Five stones of player in a row somewhere on the board b
FiveOnBoard(b, player) ==
    \E c \in Cells(b) : b[c[1]][c[2]] = player /\ HasFive(b, c[1], c[2], player)

\* C26: at the moment the game is ended with a winner, the board holds at
\* least five contiguous stones of the winner in one direction
C26_WinnerHasFive ==
    [][(gameStatus = PLAYING /\ gameStatus' = ENDED /\ winner' \in Players)
       => FiveOnBoard(board', winner')]_vars

====
